---- MODULE Spec2Model ----
(***************************************************************************)
(* A model of the tgtg scanner: the marketplace session (TgtgClient), the  *)
(* item tracker and notification fan-out (Scanner, Notifiers, Notifier),   *)
(* channel initialisation at startup and the favourites listing.           *)
(*                                                                         *)
(* Every component has its own specification over the shared variables:    *)
(*   SpecTracker    Scanner._check_item with Notifiers.send                *)
(*   SpecDispatch   Notifiers.send over every channel configuration        *)
(*   SpecSession    TgtgClient.login: email login, polling, token refresh  *)
(*   SpecClient     TgtgClient.get_item, get_items, set_favorite           *)
(*   SpecCredentials  TgtgClient.login and TgtgClient.credentials          *)
(*   SpecStartup    cli.start_scanner: Scanner.__init__ up to Scanner.run  *)
(*   SpecFavorites  Scanner._get_favorites, one listing request a step     *)
(*   SpecFavoritesRuns  the same, where the loop goes on while it can      *)
(*   SpecHelper     Helper.favorites, one listing request a step           *)
(*   SpecCycle      Scanner.run and Scanner._job, one fetch or check a step*)
(*   SpecShutdown   the same with a KeyboardInterrupt at any time          *)
(*   SpecListed     one Scanner._job on a listing longer than a page       *)
(*   SpecProcess    cli.start_scanner followed into the loop of Scanner.run*)
(***************************************************************************)
EXTENDS Integers, Sequences, FiniteSets, TLC

VARIABLES
    amounts,      \* Scanner.amounts: item_id -> last recorded items_available
    enabled,      \* Notifier._enabled of each channel of Notifiers
    lastCheck,    \* observation of the most recent Scanner._check_item call
    lastSend,     \* observation of the most recent Notifiers.send call
    session,      \* the fields of the TgtgClient
    now,          \* datetime.datetime.now(), in seconds
    lastCall,     \* observation of the most recent TgtgClient call
    emailLogins,  \* the email logins started so far
    config,       \* the Config the scanner is started with
    scanner,      \* cli.start_scanner: where it is and what startup did
    fav,          \* Scanner._get_favorites: its locals and its requests
    cycle,        \* Scanner.run and Scanner._job: where they are, what they did
    favorites     \* the provider's side: the item ids the account has as favourites

trackerVars == <<amounts, enabled, lastCheck, lastSend>>

sessionVars == <<session, now, lastCall, emailLogins>>

startupVars == <<config, scanner>>

vars == <<amounts, enabled, lastCheck, lastSend, session, now, lastCall,
          emailLogins, config, scanner, fav, cycle, favorites>>

None == "None"

(***************************************************************************)
(* Bounds of the model.                                                    *)
(***************************************************************************)
MaxItems == 2
MaxCount == 2
MaxEnabled == 1       \* channels enabled at once under SpecTracker
MaxTries == 2         \* largest configured max_polling_tries
MaxTokenGen == 2      \* distinct credential sets the provider hands out
MaxDays == 1          \* the clock stops after this many days
MaxEmailLogins == 1   \* email logins one client starts
MaxTemplateLen == 1   \* placeholders in one webhook template
MaxFullPages == 2     \* full pages the provider returns in one listing
MaxCycles == 2        \* cycles of Scanner.run
MaxFavorites == 1     \* favourites of a listing that differ from one another
MaxProcessCycles == 1 \* cycles of the loop followed from the start of the process
MaxClientTicks == 2   \* token lifetimes that pass while operations are called
MaxHelperPages == 3   \* page numbers of Helper.favorites that are told apart

ItemIds == 1..MaxItems
Counts == 0..MaxCount

\* Item(data): the attributes of an Item the tracker reads.
Items == [item_id : ItemIds, items_available : Counts]

(***************************************************************************)
(* Notifiers: the five channels, in the order Notifiers.send calls them.   *)
(***************************************************************************)
SendOrder == <<"push_safer", "smtp", "ifttt", "webhook", "telegram">>

Channels == {SendOrder[i] : i \in DOMAIN SendOrder}

\* The progress of one Notifiers.send call: the channels whose _send ran, the
\* ones that returned, the ones whose exception was logged, and whether an
\* exception is propagating out of the call.
NoSend == [attempted |-> {}, delivered |-> {}, logged |-> {}, raised |-> FALSE]

\* Notifier.send without its try/except: the exception of _send escapes.
NotifierSendNoCatch(en, ch, failing, st) ==
    IF st.raised THEN st
    ELSE IF en[ch]
         THEN IF ch \in failing
              THEN [st EXCEPT !.attempted = @ \cup {ch}, !.raised = TRUE]
              ELSE [st EXCEPT !.attempted = @ \cup {ch},
                              !.delivered = @ \cup {ch}]
         ELSE st

\* Notifier.send without its test of the enabled flag.
NotifierSendUnguarded(en, ch, failing, st) ==
    IF st.raised THEN st
    ELSE IF ch \in failing
         THEN [st EXCEPT !.attempted = @ \cup {ch}, !.logged = @ \cup {ch}]
         ELSE [st EXCEPT !.attempted = @ \cup {ch}, !.delivered = @ \cup {ch}]

\* Notifier.send(item) of channel ch; failing is the set of channels whose
\* _send raises on this item.  A statement after a raise never runs.
NotifierSend(en, ch, failing, st) ==
    IF st.raised THEN st
    ELSE IF en[ch]
         THEN IF ch \in failing
              THEN [st EXCEPT !.attempted = @ \cup {ch},
                              !.logged = @ \cup {ch}]
              ELSE [st EXCEPT !.attempted = @ \cup {ch},
                              !.delivered = @ \cup {ch}]
         ELSE st

RECURSIVE SendFrom(_, _, _, _)
SendFrom(en, i, failing, st) ==
    IF i > Len(SendOrder) THEN st
    ELSE SendFrom(en, i + 1, failing, NotifierSend(en, SendOrder[i], failing, st))

\* Notifiers.send(item)
NotifiersSend(en, failing) == SendFrom(en, 1, failing, NoSend)

(***************************************************************************)
(* Scanner._check_item                                                     *)
(***************************************************************************)
\* self.amounts[item.item_id] = ..., as if the dictionary were rebuilt
\* with the one entry.
RecordAlone(am, id, n) == [x \in {id} |-> n]

\* self.amounts[item.item_id] = item.items_available: the entry of the item
\* is set, every other entry stays.
Record(am, id, n) == [x \in (DOMAIN am) \cup {id} |-> IF x = id THEN n ELSE am[x]]

\* A threshold detector instead of the edge detector: notifies whenever the
\* count rose.
RisingEdgeAnyRise(am, item) ==
    item.items_available > am[item.item_id]

\* A detector of availability instead of the edge detector: notifies
\* whenever the item is available.
RisingEdgeWhenAvailable(am, item) ==
    item.items_available > 0

\* The test of the if statement, for an item that has an entry.
RisingEdge(am, item) ==
    am[item.item_id] = 0 /\ item.items_available > am[item.item_id]

\* The test of the finally block, as if a count whose notification a
\* channel lost were left for the next cycle.
CountDiffersAndDelivered(am, item, send) ==
    am[item.item_id] # item.items_available /\ send.logged = {}

\* The test of the finally block: the entry is not the observed count,
\* whatever the dispatch did.
CountDiffers(am, item, send) ==
    am[item.item_id] # item.items_available

\* _check_item without its finally block.
check_item_no_finally(am, en, item, failing, metricsRaise) ==
    LET id == item.item_id
        known == id \in DOMAIN am
        notify == known /\ RisingEdge(am, item)
        send == IF notify THEN NotifiersSend(en, failing) ELSE NoSend
        raisedInTry == ~known \/ send.raised \/ metricsRaise
    IN  [amounts |-> IF raisedInTry THEN Record(am, id, item.items_available) ELSE am,
         notified |-> notify,
         send |-> send,
         logged |-> FALSE]

\* _check_item(item): the try block raises KeyError for an item without an
\* entry, or whatever the dispatch or the metrics raise; the except block
\* records the count; the finally block records it when it still differs.
check_item(am, en, item, failing, metricsRaise) ==
    LET id == item.item_id
        known == id \in DOMAIN am
        notify == known /\ RisingEdge(am, item)
        send == IF notify THEN NotifiersSend(en, failing) ELSE NoSend
        raisedInTry == ~known \/ send.raised \/ metricsRaise
        afterExcept == IF raisedInTry THEN Record(am, id, item.items_available) ELSE am
        differs == CountDiffers(afterExcept, item, send)
    IN  [amounts |-> IF differs THEN Record(afterExcept, id, item.items_available)
                     ELSE afterExcept,
         notified |-> notify,
         send |-> send,
         logged |-> differs]

NoCheck == [called |-> FALSE]

CheckItem ==
    \E item \in Items, metricsRaise \in BOOLEAN :
      \E failing \in IF item.item_id \in DOMAIN amounts /\ RisingEdge(amounts, item)
                     THEN SUBSET {c \in Channels : enabled[c]} ELSE {{}} :
        LET r == check_item(amounts, enabled, item, failing, metricsRaise)
        IN  /\ amounts' = r.amounts
            /\ lastCheck' = [called |-> TRUE, item |-> item,
                             metricsRaise |-> metricsRaise,
                             notified |-> r.notified,
                             failing |-> failing,
                             send |-> r.send]
            /\ UNCHANGED <<enabled, lastSend>>
            /\ UNCHANGED <<sessionVars, startupVars, fav, cycle, favorites>>

\* A direct call of Notifiers.send(item), as Notifiers.__init__ and
\* Scanner._send_messages make it.
NotifiersSendCall ==
    \E item \in Items, failing \in SUBSET Channels :
        /\ lastSend' = [called |-> TRUE, item |-> item, failing |-> failing,
                        send |-> NotifiersSend(enabled, failing)]
        /\ UNCHANGED <<amounts, enabled, lastCheck>>
        /\ UNCHANGED <<sessionVars, startupVars, fav, cycle, favorites>>

(***************************************************************************)
(* TgtgClient: the session                                                 *)
(***************************************************************************)
DEFAULT_ACCESS_TOKEN_LIFETIME == 14400
DEFAULT_POLLING_WAIT_TIME == 5
SecondsPerDay == 86400     \* timedelta.seconds counts within one day

HTTP_OK == 200
HTTP_ACCEPTED == 202
HTTP_TOO_MANY_REQUESTS == 429
HTTP_UNAUTHORIZED == 401   \* stands for every other status

NoToken == 0               \* None: no access token, refresh token or user id
NoTime == -1               \* None: last_time_token_refreshed is unset
NoEmail == "None"
Email == "user@example.org"

ConfiguredToken == 1       \* the token set given at construction
ProviderTokens == (ConfiguredToken + 1)..(ConfiguredToken + MaxTokenGen)

MaxTime == MaxDays * SecondsPerDay

\* Configured token lifetimes: just under the default, the default, two days.
Lifetimes == {DEFAULT_ACCESS_TOKEN_LIFETIME - 1, DEFAULT_ACCESS_TOKEN_LIFETIME,
              2 * SecondsPerDay}

PollingWaits == {0, DEFAULT_POLLING_WAIT_TIME}

\* The time that passes between two calls.
TickSizes == {DEFAULT_ACCESS_TOKEN_LIFETIME, SecondsPerDay}

\* TgtgClient.__init__, as if it started the refresh timer.
TgtgClientTimerStarted(email, access, refresh, user, lifetime, tries, wait) ==
    [email |-> email,
     access_token |-> access,
     refresh_token |-> refresh,
     user_id |-> user,
     last_time_token_refreshed |-> 0,
     access_token_lifetime |-> lifetime,
     max_polling_tries |-> tries,
     polling_wait_time |-> wait,
     bearer |-> access]

\* TgtgClient.__init__
TgtgClient(email, access, refresh, user, lifetime, tries, wait) ==
    [email |-> email,
     access_token |-> access,
     refresh_token |-> refresh,
     user_id |-> user,
     last_time_token_refreshed |-> NoTime,
     access_token_lifetime |-> lifetime,
     max_polling_tries |-> tries,
     polling_wait_time |-> wait,
     \* session.headers = self._headers, evaluated once
     bearer |-> access]

\* TgtgClient._already_logged
already_logged(s) ==
    s.access_token # NoToken /\ s.refresh_token # NoToken /\ s.user_id # NoToken

\* The answers of the provider.
OtherStatuses == {HTTP_TOO_MANY_REQUESTS, HTTP_UNAUTHORIZED}

TokenAnswers == [status : {HTTP_OK}, gen : ProviderTokens]

ErrorAnswers == [status : OtherStatuses, gen : {NoToken}]

RefreshAnswers == TokenAnswers \cup ErrorAnswers

\* The first credentials of an account: what a confirmed login hands out.
FirstTokenAnswers == [status : {HTTP_OK}, gen : {ConfiguredToken + 1}]

PollAnswers == [status : {HTTP_ACCEPTED}, gen : {NoToken}]
                 \cup FirstTokenAnswers \cup ErrorAnswers

PollingIds == {"pid1", "pid2"}

NoPollingId == "None"

EmailAnswers ==
    [status : {HTTP_OK}, state : {"WAIT"}, polling_id : PollingIds]
      \cup [status : {HTTP_OK}, state : {"TERMS", "OTHER"}, polling_id : {NoPollingId}]
      \cup [status : OtherStatuses, state : {"None"}, polling_id : {NoPollingId}]

NoEmailAnswer == [status |-> 0, state |-> "None", polling_id |-> NoPollingId]

NoAnswer == [status |-> 0, gen |-> NoToken]

\* TgtgClient._request: a POST with the headers of the requests session.
Request(s, endpoint, arg) == [endpoint |-> endpoint, bearer |-> s.bearer, arg |-> arg]

\* What one call did: the session and clock it leaves, how it ended (ok or
\* the class of the exception, with the status and the message it carries),
\* the requests it sent and the sleeps it made.
Result(s, t, outcome, status, message, seconds, requests, waits) ==
    [session |-> s, now |-> t, outcome |-> outcome, status |-> status,
     message |-> message, seconds |-> seconds, requests |-> requests,
     waits |-> waits]

Returned(s, t, requests, waits) == Result(s, t, "ok", 0, "", 0, requests, waits)

\* timedelta.seconds of a difference of d seconds
TimedeltaSeconds(d) == d % SecondsPerDay

\* The early return of _refresh_token, with < for <=.
TokenFreshStrict(s, t) ==
    /\ s.last_time_token_refreshed # NoTime
    /\ TimedeltaSeconds(t - s.last_time_token_refreshed) < s.access_token_lifetime

\* The test of the early return of _refresh_token.
TokenFresh(s, t) ==
    /\ s.last_time_token_refreshed # NoTime
    /\ TimedeltaSeconds(t - s.last_time_token_refreshed) <= s.access_token_lifetime

\* The else branch of _refresh_token, as if it restarted the refresh timer.
RefreshRefusedTimerSet(s, t, ans, req) ==
    Result([s EXCEPT !.last_time_token_refreshed = t], t, "TgtgAPIError",
           ans.status, "", 0, req, 0)

\* The else branch of _refresh_token: raise TgtgAPIError(status_code, ...),
\* nothing of the client is assigned.
RefreshRefused(s, t, ans, req) ==
    Result(s, t, "TgtgAPIError", ans.status, "", 0, req, 0)

\* The OK branch of _refresh_token, as if it kept the old refresh token.
RefreshedKeepsRefreshToken(s, t, ans) ==
    [s EXCEPT !.access_token = ans.gen,
              !.last_time_token_refreshed = t]

\* The OK branch of _refresh_token: the two tokens of the response and the
\* time of the refresh.
Refreshed(s, t, ans) ==
    [s EXCEPT !.access_token = ans.gen,
              !.refresh_token = ans.gen,
              !.last_time_token_refreshed = t]

\* TgtgClient._refresh_token, answered with ans if it sends its request.
refresh_token(s, t, ans) ==
    IF TokenFresh(s, t) THEN Returned(s, t, << >>, 0)
    ELSE LET req == <<Request(s, "token/refresh", s.refresh_token)>>
         IN  IF ans.status = HTTP_OK
             THEN Returned(Refreshed(s, t, ans), t, req, 0)
             ELSE RefreshRefused(s, t, ans, req)

\* range(self.max_polling_tries), one try too many.
PollingTriesPlusOne(s) == s.max_polling_tries + 1

\* range(self.max_polling_tries)
PollingTries(s) == s.max_polling_tries

\* The OK branch of start_polling, leaving the refresh timer alone.
ConfirmedKeepsTimer(s, t, ans) ==
    [s EXCEPT !.access_token = ans.gen,
              !.refresh_token = ans.gen,
              !.user_id = ans.gen]

\* The OK branch of start_polling: the tokens, the timer and the user id.
Confirmed(s, t, ans) ==
    [s EXCEPT !.access_token = ans.gen,
              !.refresh_token = ans.gen,
              !.last_time_token_refreshed = t,
              !.user_id = ans.gen]

\* The answer to the i-th polling request; the provider keeps the login
\* pending once the script is used up.
ScriptAnswer(script, i) ==
    IF i \in DOMAIN script THEN script[i]
    ELSE [status |-> HTTP_ACCEPTED, gen |-> NoToken]

\* The last two branches of start_polling, as if they slept like the
\* pending branch before raising.
PollingRefusedSleeps(s, t, ans, reqs, waits) ==
    IF ans.status = HTTP_TOO_MANY_REQUESTS
    THEN Result(s, t + s.polling_wait_time, "TgtgAPIError", 0,
                "429 - Too many requests", 0, reqs, waits + 1)
    ELSE Result(s, t + s.polling_wait_time, "TgtgLoginError", ans.status, "",
                0, reqs, waits + 1)

\* The last two branches of start_polling: 429 raises TgtgAPIError, every
\* other status TgtgLoginError(status_code, content).
PollingRefused(s, t, ans, reqs, waits) ==
    IF ans.status = HTTP_TOO_MANY_REQUESTS
    THEN Result(s, t, "TgtgAPIError", 0, "429 - Too many requests",
                0, reqs, waits)
    ELSE Result(s, t, "TgtgLoginError", ans.status, "", 0, reqs, waits)

\* TgtgClient.start_polling from its i-th try on; t is the clock, requests
\* and waits what the call did so far.
RECURSIVE start_polling(_, _, _, _, _, _, _)
start_polling(s, t, pid, script, i, requests, waits) ==
    IF i > PollingTries(s)
    THEN Result(s, t, "TgtgPollingError", 0, "Max retries",
                s.max_polling_tries * s.polling_wait_time, requests, waits)
    ELSE LET ans == ScriptAnswer(script, i)
             reqs == Append(requests, Request(s, "authByRequestPollingId", pid))
         IN  IF ans.status = HTTP_ACCEPTED
             THEN start_polling(s, t + s.polling_wait_time, pid, script, i + 1,
                                reqs, waits + 1)
             ELSE IF ans.status = HTTP_OK
             THEN Returned(Confirmed(s, t, ans), t, reqs, waits)
             ELSE PollingRefused(s, t, ans, reqs, waits)

\* The first test of login(), as if every client passed it.
HasCredentialsAlways(s) == TRUE

\* The first test of login(): an email, or all of access token, refresh
\* token and user id.
HasCredentials(s) == s.email # NoEmail \/ already_logged(s)

\* TgtgClient.login; refresh, mail and script are the answers the provider
\* gives to the refresh, email and polling requests the call sends.
login(s, t, refresh, mail, script) ==
    IF ~HasCredentials(s)
    THEN Result(s, t, "TGTGConfigurationError", 0, "", 0, << >>, 0)
    ELSE IF already_logged(s) THEN refresh_token(s, t, refresh)
    ELSE LET req == <<Request(s, "authByEmail", s.email)>>
         IN  IF mail.status = HTTP_OK
             THEN IF mail.state = "TERMS"
                  THEN Result(s, t, "TgtgPollingError", 0, "not linked", 0, req, 0)
                  ELSE IF mail.state = "WAIT"
                  THEN start_polling(s, t, mail.polling_id, script, 1, req, 0)
                  ELSE Result(s, t, "TgtgLoginError", mail.status, "", 0, req, 0)
             ELSE IF mail.status = HTTP_TOO_MANY_REQUESTS
                  THEN Result(s, t, "TgtgAPIError", 0, "429 - Too many requests",
                              0, req, 0)
                  ELSE Result(s, t, "TgtgLoginError", mail.status, "", 0, req, 0)

\* The dict TgtgClient.credentials returns, of a client s.
Credentials(s) ==
    [access_token |-> s.access_token, refresh_token |-> s.refresh_token,
     user_id |-> s.user_id]

NoCredentials ==
    [access_token |-> NoToken, refresh_token |-> NoToken, user_id |-> NoToken]

\* The accessor without its call of login().
credentials_no_login(s, t, refresh, mail, script) ==
    [call |-> Returned(s, t, << >>, 0), returned |-> Credentials(s)]

\* TgtgClient.credentials: login(), then the three fields of the client;
\* an exception of login() leaves the accessor.
credentials(s, t, refresh, mail, script) ==
    LET l == login(s, t, refresh, mail, script)
    IN  [call |-> l,
         returned |-> IF l.outcome = "ok" THEN Credentials(l.session)
                      ELSE NoCredentials]

NoCall ==
    [op |-> "none", at |-> 0, outcome |-> "ok", status |-> 0, message |-> "",
     seconds |-> 0, requests |-> << >>, waits |-> 0,
     refresh |-> NoAnswer, mail |-> NoEmailAnswer, script |-> << >>,
     login |-> "ok", own |-> << >>, answer |-> 0, given |-> -1, payload |-> -1,
     args |-> [item_id |-> 0, is_favorite |-> FALSE], again |-> FALSE,
     returned |-> NoCredentials]

Call(op, t, r, refresh, mail, script) ==
    [NoCall EXCEPT !.op = op, !.at = t, !.outcome = r.outcome,
                   !.status = r.status, !.message = r.message,
                   !.seconds = r.seconds, !.requests = r.requests,
                   !.waits = r.waits, !.refresh = refresh, !.mail = mail,
                   !.script = script, !.login = r.outcome]

\* A login() call.  The provider's answers that the call can consume are
\* chosen with it: none for a client without email and credentials, the
\* refresh answer for a client that is logged in, the email answer and the
\* polling script for one that is not.
Login ==
    \/ /\ ~already_logged(session)
       /\ session.email = NoEmail
       /\ LET r == login(session, now, NoAnswer, NoEmailAnswer, << >>)
          IN  /\ session' = r.session
              /\ now' = r.now
              /\ lastCall' = Call("login", now, r, NoAnswer, NoEmailAnswer, << >>)
       /\ UNCHANGED <<emailLogins, trackerVars, startupVars, fav, cycle, favorites>>
    \/ /\ already_logged(session)
       /\ \E refresh \in RefreshAnswers :
            LET r == login(session, now, refresh, NoEmailAnswer, << >>)
            IN  /\ session' = r.session
                /\ now' = r.now
                /\ lastCall' = Call("login", now, r,
                                    IF r.requests = << >> THEN NoAnswer ELSE refresh,
                                    NoEmailAnswer, << >>)
       /\ UNCHANGED <<emailLogins, trackerVars, startupVars, fav, cycle, favorites>>
    \/ /\ ~already_logged(session)
       /\ session.email # NoEmail
       /\ emailLogins < MaxEmailLogins
       /\ emailLogins' = emailLogins + 1
       /\ \E mail \in EmailAnswers :
            \E script \in IF mail.state = "WAIT"
                          THEN [1..session.max_polling_tries -> PollAnswers]
                          ELSE {<< >>} :
              LET r == login(session, now, NoAnswer, mail, script)
              IN  /\ session' = r.session
                  /\ now' = r.now
                  /\ lastCall' = Call("login", now, r, NoAnswer, mail, script)
       /\ UNCHANGED <<trackerVars, startupVars, fav, cycle, favorites>>

\* A read of the credentials property, with the answers its login() can
\* consume chosen as for Login.
GetCredentials ==
    \/ /\ ~already_logged(session)
       /\ session.email = NoEmail
       /\ LET c == credentials(session, now, NoAnswer, NoEmailAnswer, << >>)
          IN  /\ session' = c.call.session
              /\ now' = c.call.now
              /\ lastCall' = [Call("credentials", now, c.call, NoAnswer,
                                   NoEmailAnswer, << >>)
                                EXCEPT !.returned = c.returned]
       /\ UNCHANGED <<emailLogins, trackerVars, startupVars, fav, cycle, favorites>>
    \/ /\ already_logged(session)
       /\ \E refresh \in RefreshAnswers :
            LET c == credentials(session, now, refresh, NoEmailAnswer, << >>)
            IN  /\ session' = c.call.session
                /\ now' = c.call.now
                /\ lastCall' = [Call("credentials", now, c.call,
                                     IF c.call.requests = << >> THEN NoAnswer
                                     ELSE refresh,
                                     NoEmailAnswer, << >>)
                                  EXCEPT !.returned = c.returned]
       /\ UNCHANGED <<emailLogins, trackerVars, startupVars, fav, cycle, favorites>>
    \/ /\ ~already_logged(session)
       /\ session.email # NoEmail
       /\ emailLogins < MaxEmailLogins
       /\ emailLogins' = emailLogins + 1
       /\ \E mail \in EmailAnswers :
            \E script \in IF mail.state = "WAIT"
                          THEN [1..session.max_polling_tries -> PollAnswers]
                          ELSE {<< >>} :
              LET c == credentials(session, now, NoAnswer, mail, script)
              IN  /\ session' = c.call.session
                  /\ now' = c.call.now
                  /\ lastCall' = [Call("credentials", now, c.call, NoAnswer,
                                       mail, script)
                                    EXCEPT !.returned = c.returned]
       /\ UNCHANGED <<trackerVars, startupVars, fav, cycle, favorites>>

\* Time passes between two calls.
Tick ==
    /\ \E d \in TickSizes :
         /\ now + d <= MaxTime
         /\ now' = now + d
    /\ lastCall' = NoCall
    /\ UNCHANGED <<session, emailLogins, trackerVars, startupVars, fav, cycle, favorites>>

(***************************************************************************)
(* The operations of the client: get_items, get_item, set_favorite         *)
(***************************************************************************)
\* The answers the provider gives to the requests login() sends.
LoginEnv(refresh, mail, script) ==
    [refresh |-> refresh, mail |-> mail, script |-> script]

\* The answers to login() of a client that is logged in.
LoggedEnv(refresh) == LoginEnv(refresh, NoEmailAnswer, << >>)

\* page_size of _get_favorites.
page_size == 100

\* An operation goes on to its own request whatever login() did.
ProceedsAlways(l) == TRUE

\* An operation goes on to its own request when login() returned.
Proceeds(l) == l.outcome = "ok"

\* The requests of an operation, as if it asked again after an error status.
OwnRequestsRetry(req, ans) ==
    IF ans.status = HTTP_OK THEN <<req>> ELSE <<req, req>>

\* The requests of an operation after login(): one call of _request.
OwnRequests(req, ans) == <<req>>

\* response.content of an answer with an error status.
ResponseContent == "response.content"

\* The body of get_item, get_items and set_favorite: l is what login() did;
\* the request req follows, and the answer is the payload or raises
\* TgtgAPIError(response.status_code, response.content).
Operation(l, req, ans, payload) ==
    IF ~Proceeds(l)
    THEN [session |-> l.session, now |-> l.now, outcome |-> l.outcome,
          status |-> l.status, message |-> l.message, requests |-> l.requests,
          waits |-> l.waits, seconds |-> l.seconds, own |-> << >>,
          payload |-> -1]
    ELSE [session |-> l.session, now |-> l.now,
          outcome |-> IF ans.status = HTTP_OK THEN "ok" ELSE "TgtgAPIError",
          status |-> IF ans.status = HTTP_OK THEN 0 ELSE ans.status,
          message |-> IF ans.status = HTTP_OK THEN "" ELSE ResponseContent,
          requests |-> l.requests \o OwnRequests(req, ans),
          waits |-> l.waits, seconds |-> 0,
          own |-> OwnRequests(req, ans),
          payload |-> IF ans.status = HTTP_OK THEN payload ELSE -1]

\* TgtgClient.get_items: login(), then the listing request; the payload is
\* the number of items of the page.
get_items(s, t, page, env, ans) ==
    LET l == login(s, t, env.refresh, env.mail, env.script)
    IN  Operation(l, Request(l.session, "item",
                             [page_size |-> page_size, page |-> page]),
                  ans, ans.len)

\* TgtgClient.get_item: login(), then the item request; the payload is the
\* count of the item, or -1 for a payload Item() cannot read.
get_item(s, t, item_id, env, ans) ==
    LET l == login(s, t, env.refresh, env.mail, env.script)
    IN  Operation(l, Request(l.session, "item/id", [item_id |-> item_id]),
                  ans, ans.count)

\* json={"is_favorite": ...} of set_favorite, as if it sent the opposite.
ToggleFlagFlipped(is_favorite) == ~is_favorite

\* json={"is_favorite": is_favorite} of set_favorite.
ToggleFlag(is_favorite) == is_favorite

\* TgtgClient.set_favorite: login(), then the toggle request; nothing is
\* returned.
set_favorite(s, t, item_id, is_favorite, env, ans) ==
    LET l == login(s, t, env.refresh, env.mail, env.script)
    IN  Operation(l, Request(l.session, "item/id/setFavorite",
                             [item_id |-> item_id,
                              is_favorite |-> ToggleFlag(is_favorite)]),
                  ans, -1)

\* The lengths of the pages the provider answers with.
PageLengths == {0, 1, 40, page_size - 1, page_size}

\* The answers to a listing request: a page of len items, or a status other
\* than OK (len is -1 then).
ListingAnswers ==
    [status : {HTTP_OK}, len : PageLengths] \cup [status : OtherStatuses, len : {-1}]

NoListingAnswer == [status |-> 0, len |-> -1]

\* The counts the provider reports within a cycle: none or some.
CycleCounts == {0, MaxCount}

\* The answers to an item request: the item with count bags, a payload that
\* Item() cannot read (count is -1), or a status other than OK.
ItemAnswers ==
    [status : {HTTP_OK}, count : CycleCounts \cup {-1}]
      \cup [status : OtherStatuses, count : {-1}]

NoItemAnswer == [status |-> 0, count |-> -1]

\* The answers to a toggle request.
ToggleAnswers == [status : {HTTP_OK} \cup OtherStatuses]

NoToggleAnswer == [status |-> 0]

\* The answers login() can consume for client s at time t: none for a
\* client without email and credentials or with fresh tokens, the answer to
\* the refresh request for a client that is logged in, the answers to the
\* email request and the polling requests for one that is not.
LoginEnvs(s, t) ==
    IF already_logged(s)
    THEN {LoggedEnv(refresh) :
            refresh \in IF TokenFresh(s, t) THEN {NoAnswer} ELSE RefreshAnswers}
    ELSE IF s.email = NoEmail
    THEN {LoginEnv(NoAnswer, NoEmailAnswer, << >>)}
    ELSE UNION {{LoginEnv(NoAnswer, mail, script) :
                   script \in IF mail.state = "WAIT"
                              THEN [1..s.max_polling_tries -> PollAnswers]
                              ELSE {<< >>}} :
                mail \in EmailAnswers}

\* What is kept of a call of an operation: what its login() did, its own
\* requests, the status and the payload the provider answered with, and
\* what the call returned.
OpCall(op, t, l, r, env, status, given) ==
    [Call(op, t, r, env.refresh, env.mail, env.script) EXCEPT
       !.login = l.outcome, !.own = r.own, !.answer = status,
       !.given = given, !.payload = r.payload]

\* An email login may start: the client is logged in, or has started fewer
\* than MaxEmailLogins of them.
MayLogin ==
    already_logged(session) \/ session.email = NoEmail
        \/ emailLogins < MaxEmailLogins

EmailLoginsAfter ==
    IF already_logged(session) \/ session.email = NoEmail
    THEN emailLogins ELSE emailLogins + 1

\* A call of get_item(item_id).
GetItem ==
    /\ MayLogin
    /\ \E item_id \in {1}, env \in LoginEnvs(session, now) :
         LET l == login(session, now, env.refresh, env.mail, env.script)
         IN  \E ans \in IF l.outcome = "ok" THEN ItemAnswers ELSE {NoItemAnswer} :
               LET r == get_item(session, now, item_id, env, ans)
               IN  /\ session' = r.session
                   /\ now' = r.now
                   /\ lastCall' = OpCall("get_item", now, l, r, env,
                                         ans.status, ans.count)
    /\ emailLogins' = EmailLoginsAfter
    /\ UNCHANGED <<trackerVars, startupVars, fav, cycle, favorites>>

\* A call of get_items(favorites_only=True, page_size=100, page=1).
GetItems ==
    /\ MayLogin
    /\ \E env \in LoginEnvs(session, now) :
         LET l == login(session, now, env.refresh, env.mail, env.script)
         IN  \E ans \in IF l.outcome = "ok" THEN ListingAnswers
                        ELSE {NoListingAnswer} :
               LET r == get_items(session, now, 1, env, ans)
               IN  /\ session' = r.session
                   /\ now' = r.now
                   /\ lastCall' = OpCall("get_items", now, l, r, env,
                                         ans.status, ans.len)
    /\ emailLogins' = EmailLoginsAfter
    /\ UNCHANGED <<trackerVars, startupVars, fav, cycle, favorites>>

\* The provider's side of a toggle: a request it answers with OK sets the
\* favourite status of the item to the flag of the request; a request it
\* refuses, or one that was never sent, changes nothing.
ProviderToggle(favs, own, ans) ==
    IF own = << >> \/ ans.status # HTTP_OK THEN favs
    ELSE IF own[1].arg.is_favorite THEN favs \cup {own[1].arg.item_id}
    ELSE favs \ {own[1].arg.item_id}

\* The call before was the same set_favorite call, and it returned.
Repeats(call, item_id, is_favorite) ==
    /\ call.op = "set_favorite"
    /\ call.args = [item_id |-> item_id, is_favorite |-> is_favorite]
    /\ call.outcome = "ok"

\* A call of set_favorite(item_id, is_favorite).
SetFavorite ==
    /\ MayLogin
    /\ \E item_id \in {1}, is_favorite \in BOOLEAN,
          env \in LoginEnvs(session, now) :
         LET l == login(session, now, env.refresh, env.mail, env.script)
         IN  \E ans \in IF l.outcome = "ok" THEN ToggleAnswers
                        ELSE {NoToggleAnswer} :
               LET r == set_favorite(session, now, item_id, is_favorite, env, ans)
               IN  /\ session' = r.session
                   /\ now' = r.now
                   /\ lastCall' = [OpCall("set_favorite", now, l, r, env,
                                          ans.status, -1)
                                     EXCEPT !.args = [item_id |-> item_id,
                                                      is_favorite |-> is_favorite],
                                            !.again = Repeats(lastCall, item_id,
                                                              is_favorite)]
                   /\ favorites' = ProviderToggle(favorites, r.own, ans)
    /\ emailLogins' = EmailLoginsAfter
    /\ UNCHANGED <<trackerVars, startupVars, fav, cycle>>

(***************************************************************************)
(* Startup: cli.start_scanner, Scanner.__init__, Notifiers.__init__        *)
(***************************************************************************)
\* Item.ATTRS
ATTRS == {"item_id", "items_available", "display_name", "price", "currency",
          "pickupdate"}

\* The names written as ${{name}} in the templates of the model: an
\* attribute, a word that is no attribute, and a name that is no word.
PlaceholderNames == {"display_name", "bogus", "pickup-date"}

\* [a-zA-Z0-9_]+
IsWord(name) == name \in ATTRS \cup {"bogus"}

\* A configured string is absent (None) or holds some ${{name}} in order.
NoString == [present |-> FALSE, names |-> << >>]

Templates ==
    {NoString} \cup
    UNION {[present : {TRUE}, names : [1..n -> PlaceholderNames]] :
              n \in 0..MaxTemplateLen}

\* re.finditer(r"\${{([a-zA-Z0-9_]+)}}", text): group(1) of every match.
\* A text that is None raises TypeError before this is asked.
Matches(text) == {text.names[i] : i \in {j \in DOMAIN text.names : IsWord(text.names[j])}}

\* The exception classes of models/errors.py.
\* The classes the _init of the channels raise by name.
NotifierConfigurationErrors ==
    {"PushSaferConfigurationError", "SMTPConfigurationError",
     "IFTTTConfigurationError", "WebHookConfigurationError",
     "TelegramConfigurationError"}

ConfigurationErrors ==
    {"ConfigurationError", "TGTGConfigurationError"} \cup NotifierConfigurationErrors

TgtgAPIErrors == {"TgtgAPIError", "TgtgLoginError", "TgtgPollingError"}

\* The settings of the channels that their _init reads: whether a setting is
\* present, and whether the server behind the channel answers.  A disabled
\* channel keeps the defaults of its configuration class.
PushSaferConfigs ==
    {[enabled |-> FALSE, key |-> FALSE, device_id |-> FALSE]} \cup
    [enabled : {TRUE}, key : BOOLEAN, device_id : BOOLEAN]

SMTPConfigs ==
    {[enabled |-> FALSE, host |-> TRUE, port |-> TRUE, connects |-> TRUE]} \cup
    [enabled : {TRUE}, host : BOOLEAN, port : {TRUE}, connects : BOOLEAN]

IFTTTConfigs ==
    {[enabled |-> FALSE, event |-> TRUE, key |-> FALSE]} \cup
    [enabled : {TRUE}, event : {TRUE}, key : BOOLEAN]

\* The templates of one webhook hold at most MaxTemplateLen names together;
\* a webhook without method or URL keeps the other defaults.
WebHookConfigs ==
    {[enabled |-> FALSE, method |-> TRUE, url |-> NoString, body |-> NoString],
     [enabled |-> TRUE, method |-> FALSE, url |-> NoString, body |-> NoString],
     [enabled |-> TRUE, method |-> TRUE, url |-> NoString, body |-> NoString]} \cup
    {c \in [enabled : {TRUE}, method : {TRUE}, url : Templates, body : Templates] :
        /\ c.url.present
        /\ Len(c.url.names) + Len(c.body.names) <= MaxTemplateLen}

TelegramConfigs ==
    {[enabled |-> FALSE, token |-> FALSE, reachable |-> TRUE, chat_id |-> TRUE]} \cup
    [enabled : {TRUE}, token : BOOLEAN, reachable : BOOLEAN, chat_id : {TRUE}]

\* Config: the notifier sections and disable_tests.
Configs ==
    [disable_tests : BOOLEAN, push_safer : PushSaferConfigs, smtp : SMTPConfigs,
     ifttt : IFTTTConfigs, webhook : WebHookConfigs, telegram : TelegramConfigs]

\* Config(): every notifier disabled.
DefaultConfig ==
    [disable_tests |-> FALSE,
     push_safer |-> [enabled |-> FALSE, key |-> FALSE, device_id |-> FALSE],
     smtp |-> [enabled |-> FALSE, host |-> TRUE, port |-> TRUE, connects |-> TRUE],
     ifttt |-> [enabled |-> FALSE, event |-> TRUE, key |-> FALSE],
     webhook |-> [enabled |-> FALSE, method |-> TRUE, url |-> NoString,
                  body |-> NoString],
     telegram |-> [enabled |-> FALSE, token |-> FALSE, reachable |-> TRUE,
                   chat_id |-> TRUE]]

\* PushSafer._init
push_safer_init(c) ==
    IF ~c.key \/ ~c.device_id THEN "PushSaferConfigurationError" ELSE "ok"

\* SMTP._init
smtp_init(c) ==
    IF ~c.host \/ ~c.port THEN "SMTPConfigurationError"
    ELSE IF ~c.connects THEN "SMTPConfigurationError"
    ELSE "ok"

\* IFTTT._init
ifttt_init(c) ==
    IF ~c.event \/ ~c.key THEN "IFTTTConfigurationError" ELSE "ok"

\* WebHook._init: re.finditer raises TypeError on a body that is None.
webhook_init(c) ==
    IF ~c.method \/ ~c.url.present THEN "WebHookConfigurationError"
    ELSE IF ~c.body.present THEN "TypeError"
    ELSE IF \E name \in Matches(c.body) : name \notin ATTRS
    THEN "WebHookConfigurationError"
    ELSE IF \E name \in Matches(c.url) : name \notin ATTRS
    THEN "WebHookConfigurationError"
    ELSE "ok"

\* Telegram._init
telegram_init(c) ==
    IF ~c.token THEN "TelegramConfigurationError"
    ELSE IF ~c.reachable THEN "TelegramConfigurationError"
    ELSE "ok"

\* The _init of channel ch.
ChannelInit(cfg, ch) ==
    CASE ch = "push_safer" -> push_safer_init(cfg.push_safer)
      [] ch = "smtp" -> smtp_init(cfg.smtp)
      [] ch = "ifttt" -> ifttt_init(cfg.ifttt)
      [] ch = "webhook" -> webhook_init(cfg.webhook)
      [] ch = "telegram" -> telegram_init(cfg.telegram)

\* The order in which Notifiers.__init__ constructs the channels.
ConstructOrder == <<"push_safer", "smtp", "ifttt", "webhook", "telegram">>

\* No item: what a test notification that was not sent carries.
NoItem == [item_id |-> 0, items_available |-> 0]

\* test_item of Notifiers.__init__
TestItem == [item_id |-> 12345, items_available |-> 1]

NoSelfTest == [sent |-> FALSE, item |-> NoItem, failing |-> {}, send |-> NoSend]

\* The test of Notifiers.__init__ before the test notification, as if
\* disable_tests were not read.
SelfTestDueAlways(cfg) == TRUE

\* The test of Notifiers.__init__ before the test notification.
SelfTestDue(cfg) == ~cfg.disable_tests

\* Notifier.__init__ of the channels from the i-th on: the enabled setter
\* runs _init for an enabled channel, and the first _init that raises ends
\* the construction.  inits are the channels whose _init ran so far.
RECURSIVE Construct(_, _, _, _)
Construct(cfg, i, en, inits) ==
    IF i > Len(ConstructOrder)
    THEN [error |-> "None", enabled |-> en, inits |-> inits]
    ELSE LET ch == ConstructOrder[i]
         IN  IF cfg[ch].enabled
             THEN IF ChannelInit(cfg, ch) = "ok"
                  THEN Construct(cfg, i + 1, [en EXCEPT ![ch] = TRUE],
                                 inits \cup {ch})
                  ELSE [error |-> ChannelInit(cfg, ch), enabled |-> en,
                        inits |-> inits \cup {ch}]
             ELSE Construct(cfg, i + 1, en, inits)

\* Notifiers.__init__: the channels, then the test notification unless
\* disable_tests; failing are the channels whose _send raises on it.
NotifiersInit(cfg, failing) ==
    LET built == Construct(cfg, 1, [c \in Channels |-> FALSE], {})
    IN  [error |-> built.error, enabled |-> built.enabled, inits |-> built.inits,
         selfTest |-> IF built.error = "None" /\ SelfTestDue(cfg)
                      THEN [sent |-> TRUE, item |-> TestItem, failing |-> failing,
                            send |-> NotifiersSend(built.enabled, failing)]
                      ELSE NoSelfTest]

\* The except clauses of Scanner.__init__ around the login.
LoginError(class) ==
    IF class \in TgtgAPIErrors THEN class ELSE "TGTGConfigurationError"

\* The except clause of start_scanner that catches an exception of class.
Handler(class) ==
    IF class \in ConfigurationErrors THEN "ConfigurationError"
    ELSE IF class \in TgtgAPIErrors THEN "TgtgAPIError"
    ELSE "unexpected"

\* transport is the requests session of the client: "none" before the
\* client is constructed, "open" from TgtgClient.__init__ on, "closed" once
\* __del__ ran.
NotStarted ==
    [pc |-> "start", status |-> 0, error |-> "None", handler |-> "None",
     inits |-> {}, selfTest |-> NoSelfTest, transport |-> "none"]

\* The sys.exit of the except clauses of start_scanner, as if every clause
\* exited like the one of KeyboardInterrupt.
ExitStatusOfInterrupt(handler) == 0

\* The sys.exit of the except clauses of start_scanner, as if the clause of
\* KeyboardInterrupt exited like the others.
ExitStatusOfError(handler) == 1

\* The sys.exit of the except clause of start_scanner that caught the
\* exception: 0 for KeyboardInterrupt, 1 for every other clause.
ExitStatus(handler) == IF handler = "KeyboardInterrupt" THEN 0 ELSE 1

\* start_scanner ends in the except clause handler: the process exits, and
\* the client is deleted with it, which closes its requests session.
Exit(sc, error, handler) ==
    [sc EXCEPT !.pc = "exited", !.status = ExitStatus(handler),
               !.error = error, !.handler = handler, !.transport = "closed"]

\* Scanner(config_file) in start_scanner: the client logs in, the channels
\* are built and tested; an exception ends the process with status 1.
StartScanner ==
    /\ scanner.pc = "start"
    /\ \E refresh \in IF already_logged(session) THEN RefreshAnswers ELSE {NoAnswer},
          mail \in IF ~already_logged(session) /\ session.email # NoEmail
                   THEN EmailAnswers ELSE {NoEmailAnswer} :
         \E script \in IF mail.state = "WAIT"
                       THEN [1..session.max_polling_tries -> PollAnswers]
                       ELSE {<< >>} :
           LET r == login(session, now, refresh, mail, script)
               built == Construct(config, 1, [c \in Channels |-> FALSE], {})
           IN  /\ session' = r.session
               /\ now' = r.now
               /\ lastCall' = Call("login", now, r, refresh, mail, script)
               /\ IF r.outcome # "ok"
                  THEN /\ scanner' = Exit(scanner, LoginError(r.outcome),
                                          Handler(LoginError(r.outcome)))
                       /\ UNCHANGED enabled
                  ELSE \E failing \in IF built.error = "None" /\ ~config.disable_tests
                                      THEN SUBSET built.inits ELSE {{}} :
                         LET n == NotifiersInit(config, failing)
                         IN  IF n.error = "None"
                             THEN /\ enabled' = n.enabled
                                  /\ scanner' = [scanner EXCEPT
                                                   !.pc = "constructed",
                                                   !.transport = "open",
                                                   !.inits = n.inits,
                                                   !.selfTest = n.selfTest]
                             ELSE /\ UNCHANGED enabled
                                  /\ scanner' = [Exit(scanner, n.error,
                                                      Handler(n.error))
                                                   EXCEPT
                                                   !.inits = n.inits,
                                                   !.selfTest = n.selfTest]
    /\ UNCHANGED <<amounts, lastCheck, lastSend, emailLogins, config, fav, cycle, favorites>>

\* scanner.run() in start_scanner: the loop is entered.
ScannerRun ==
    /\ scanner.pc = "constructed"
    /\ scanner' = [scanner EXCEPT !.pc = "running"]
    /\ UNCHANGED <<trackerVars, sessionVars, config, fav, cycle, favorites>>

(***************************************************************************)
(* The favourites listing: Scanner._get_favorites                          *)
(***************************************************************************)
MaxFavoritesErrors == 5

\* The items of the page that answers the n-th request of a listing.
PageItems(n, len) == [j \in 1..len |-> n * (page_size + 1) + j]

\* auth are the requests the login() calls of the listing sent; beyond
\* alternates with the passes of a listing whose page numbers are no longer
\* told apart.
NoListing ==
    [pc |-> "idle", items |-> << >>, page |-> 1, error_count |-> 0,
     requests |-> << >>, responses |-> << >>, auth |-> << >>,
     beyond |-> FALSE]

\* The test that ends the listing, with <= for <.
ShortPageInclusive(len) == len <= page_size

\* The test that ends the listing: the page holds fewer items than asked.
ShortPage(len) == len < page_size

\* The page asked for after a failed fetch, as if the except clause advanced it.
RetryNextPage(f) == f.page + 1

\* The page asked for after a failed fetch: the except clause leaves it alone.
RetryPage(f) == f.page

\* error_count after a page was fetched, as if a fetched page reset it.
ErrorsAfterPageReset(f) == 0

\* error_count after a page was fetched: nothing is assigned to it.
ErrorsAfterPage(f) == f.error_count

\* The while condition after an error, as if the first error ended the loop.
GivesUpAtOnce(f) == TRUE

\* The while condition after an error: the loop ends when error_count has
\* reached 5.
GivesUp(f) == f.error_count + 1 >= MaxFavoritesErrors

\* One pass of the loop of _get_favorites.
favorites_step(f, s, t, refresh, ans) ==
    LET g == get_items(s, t, f.page, LoggedEnv(refresh), ans)
        n == Len(f.requests) + Len(g.own)
        asked == f.requests \o g.own
        auth == f.auth \o SubSeq(g.requests, 1, Len(g.requests) - Len(g.own))
    IN  IF g.outcome = "ok"
        THEN [session |-> g.session,
              fav |-> [f EXCEPT
                         !.auth = auth,
                         !.error_count = ErrorsAfterPage(f),
                         !.items = f.items \o PageItems(n, g.payload),
                         !.page = IF ShortPage(g.payload) THEN f.page ELSE f.page + 1,
                         !.pc = IF ShortPage(g.payload) THEN "done" ELSE "loop",
                         !.requests = asked,
                         !.responses = Append(f.responses, g.payload)]]
        ELSE [session |-> g.session,
              fav |-> [f EXCEPT
                         !.error_count = f.error_count + 1,
                         !.page = RetryPage(f),
                         !.pc = IF GivesUp(f) THEN "done" ELSE "loop",
                         !.auth = auth,
                         !.requests = asked,
                         !.responses = IF g.own = << >> THEN f.responses
                                       ELSE Append(f.responses, -1)]]

\* _get_favorites is called: items = [], page = 1, error_count = 0.
GetFavorites ==
    /\ fav.pc \in {"idle", "done"}
    /\ fav' = [NoListing EXCEPT !.pc = "loop"]
    /\ UNCHANGED <<trackerVars, sessionVars, startupVars, cycle, favorites>>

\* One pass of the loop.  The provider answers the refresh request if the
\* pass sends one, and the listing request; it answers with a full page
\* only up to page MaxFullPages.
FavoritesStep ==
    /\ fav.pc = "loop"
    /\ \E refresh \in IF TokenFresh(session, now) THEN {NoAnswer} ELSE RefreshAnswers :
         \E ans \in IF refresh.status \in OtherStatuses THEN {NoListingAnswer}
                    ELSE ListingAnswers :
           /\ ans.len >= page_size => fav.page <= MaxFullPages
           /\ LET r == favorites_step(fav, session, now, refresh, ans)
              IN  /\ fav' = r.fav
                  /\ session' = r.session
    /\ UNCHANGED <<now, lastCall, emailLogins, trackerVars, startupVars, cycle, favorites>>

(***************************************************************************)
(* The helper: Helper.favorites                                            *)
(***************************************************************************)
\* One pass of the loop of Helper.favorites: the finally clause adds 1 to
\* page whatever happened, the except clause logs and the loop goes on.
helper_favorites_step(f, s, t, refresh, ans) ==
    LET g == get_items(s, t, f.page, LoggedEnv(refresh), ans)
        n == Len(f.requests) + Len(g.own)
        asked == f.requests \o g.own
        auth == f.auth \o SubSeq(g.requests, 1, Len(g.requests) - Len(g.own))
    IN  IF g.outcome = "ok"
        THEN [session |-> g.session,
              fav |-> [f EXCEPT
                         !.auth = auth,
                         !.items = f.items \o PageItems(n, g.payload),
                         !.page = f.page + 1,
                         !.pc = IF ShortPage(g.payload) THEN "done" ELSE "loop",
                         !.requests = asked,
                         !.responses = Append(f.responses, g.payload)]]
        ELSE [session |-> g.session,
              fav |-> [f EXCEPT
                         !.auth = auth,
                         !.page = f.page + 1,
                         !.pc = "loop",
                         !.requests = asked,
                         !.responses = IF g.own = << >> THEN f.responses
                                       ELSE Append(f.responses, -1)]]

\* The favorites property of the helper is read: items = [], page = 1.
HelperFavorites ==
    /\ fav.pc \in {"idle", "done"}
    /\ fav' = [NoListing EXCEPT !.pc = "loop"]
    /\ UNCHANGED <<trackerVars, sessionVars, startupVars, cycle, favorites>>

\* One pass of the loop, answered as a pass of _get_favorites is.  From
\* page MaxHelperPages on the passes are no longer told apart: a pass that
\* does not end the loop leaves the listing as it is but for beyond.
HelperFavoritesStep ==
    /\ fav.pc = "loop"
    /\ \E refresh \in IF TokenFresh(session, now) THEN {NoAnswer} ELSE RefreshAnswers :
         \E ans \in IF refresh.status \in OtherStatuses THEN {NoListingAnswer}
                    ELSE ListingAnswers :
           /\ ans.len >= page_size => fav.page <= MaxFullPages
           /\ LET r == helper_favorites_step(fav, session, now, refresh, ans)
              IN  /\ fav' = IF fav.page < MaxHelperPages \/ r.fav.pc = "done"
                            THEN r.fav
                            ELSE [fav EXCEPT !.beyond = ~fav.beyond]
                  /\ session' = r.session
    /\ UNCHANGED <<now, lastCall, emailLogins, trackerVars, startupVars, cycle, favorites>>

(***************************************************************************)
(* The cycle: TgtgClient.get_item, Scanner._job, Scanner.run               *)
(***************************************************************************)
\* The channels whose enabled flag is set.
EnabledChannels == {c \in Channels : enabled[c]}

\* An entry "" of Scanner.item_ids.
EmptyId == 0

\* Config.sleep_time: as long as the tokens live, so that a sleep ends
\* before or after the tokens are due for a refresh.
SleepTimes == {DEFAULT_ACCESS_TOKEN_LIFETIME}

\* sleep_time * (0.9 + 0.2 * random()), at the ends of the range.
SleepDurations(sleep_time) == {(sleep_time * 9) \div 10, (sleep_time * 11) \div 10}

\* The lists of item ids a configuration names: "" and an id, or two ids.
ItemIdLists == {<<EmptyId, 1>>, <<1, MaxItems>>}

\* The items the provider lists as favourites within a cycle.
FavoriteItems == [item_id : {1, MaxItems}, items_available : CycleCounts]

\* What is kept of a _check_item call of _job: the item, whether the call
\* notified, and whether the first loop made it.
Observed(item, notified, explicit) ==
    [item |-> item, notified |-> notified, explicit |-> explicit]

\* The scanner before run() is called.
NoCycle ==
    [pc |-> "ready", item_ids |-> << >>,
     sleep_time |-> DEFAULT_ACCESS_TOKEN_LIFETIME, cycles |-> 0,
     sleeps |-> 0, i |-> 1, j |-> 1, fetched |-> << >>, failed |-> << >>,
     checked |-> << >>, saved |-> << >>, requests |-> << >>,
     interrupted |-> FALSE, observed |-> << >>]

\* The while loop of run() after its sleep, as if it ended with the cycle.
AfterSleepStop(c) == "stopped"

\* The while loop of run() after its sleep, as if run() caught the
\* KeyboardInterrupt with the other exceptions of _job.
AfterSleepGoesOn(c) == "ready"

\* The while loop of run() after its sleep: the next pass, unless a
\* KeyboardInterrupt is on its way out of the finally clause.
AfterSleep(c) == IF c.interrupted THEN "stopped" ELSE "ready"

\* run() calls _job().
JobStart ==
    /\ scanner.pc = "running"
    /\ cycle.pc = "ready"
    /\ cycle.cycles < MaxCycles
    /\ cycle' = [cycle EXCEPT !.pc = "items", !.cycles = cycle.cycles + 1,
                              !.i = 1, !.j = 1, !.fetched = << >>,
                              !.failed = << >>, !.checked = << >>,
                              !.saved = << >>, !.requests = << >>,
                              !.observed = << >>]
    /\ fav' = NoListing
    /\ UNCHANGED <<trackerVars, sessionVars, startupVars, favorites>>

\* One pass of the first loop of _job, without its try.
JobItemNoCatch(c, failure) ==
    IF failure
    THEN [c EXCEPT !.pc = "sleep", !.failed = Append(c.failed, c.item_ids[c.i])]
    ELSE [c EXCEPT !.i = c.i + 1]

\* One pass of the first loop of _job: the except clause logs a failure and
\* the loop goes on with the next id.
JobItemDone(c, failure) ==
    IF failure
    THEN [c EXCEPT !.i = c.i + 1, !.failed = Append(c.failed, c.item_ids[c.i])]
    ELSE [c EXCEPT !.i = c.i + 1]

\* One pass of the first loop of _job: get_item and _check_item for the
\* i-th configured id, unless the id is "".
JobItem ==
    /\ cycle.pc = "items"
    /\ cycle.i <= Len(cycle.item_ids)
    /\ LET id == cycle.item_ids[cycle.i]
       IN  IF id = EmptyId
           THEN /\ cycle' = [cycle EXCEPT !.i = cycle.i + 1]
                /\ UNCHANGED <<trackerVars, session>>
           ELSE \E refresh \in IF TokenFresh(session, now) THEN {NoAnswer}
                               ELSE RefreshAnswers :
                  \E ans \in IF refresh.status \in OtherStatuses THEN {NoItemAnswer}
                             ELSE ItemAnswers :
                    LET g == get_item(session, now, id, LoggedEnv(refresh), ans)
                        read == g.outcome = "ok" /\ g.payload >= 0
                        item == [item_id |-> id, items_available |-> g.payload]
                        c == [cycle EXCEPT !.fetched = Append(cycle.fetched, id),
                                           !.requests = cycle.requests \o g.requests]
                    IN  /\ session' = g.session
                        /\ IF read
                           THEN \E metricsRaise \in {FALSE} :
                                  \E failing \in IF id \in DOMAIN amounts
                                                    /\ RisingEdge(amounts, item)
                                                 THEN SUBSET EnabledChannels
                                                 ELSE {{}} :
                                    LET r == check_item(amounts, enabled, item,
                                                        failing, metricsRaise)
                                    IN  /\ amounts' = r.amounts
                                        /\ lastCheck' =
                                             [called |-> TRUE, item |-> item,
                                              metricsRaise |-> metricsRaise,
                                              notified |-> r.notified,
                                              failing |-> failing,
                                              send |-> r.send]
                                        /\ cycle' = [JobItemDone(c, FALSE) EXCEPT
                                                       !.checked = Append(c.checked, item),
                                                       !.observed = Append(c.observed,
                                                          Observed(item, r.notified, TRUE))]
                           ELSE /\ cycle' = JobItemDone(c, TRUE)
                                /\ UNCHANGED <<amounts, lastCheck>>
                        /\ UNCHANGED <<enabled, lastSend>>
    /\ UNCHANGED <<now, lastCall, emailLogins, startupVars, fav, favorites>>

\* _job calls _get_favorites() after the first loop.
JobListFavorites ==
    /\ cycle.pc = "items"
    /\ cycle.i > Len(cycle.item_ids)
    /\ cycle' = [cycle EXCEPT !.pc = "favorites"]
    /\ fav' = [NoListing EXCEPT !.pc = "loop"]
    /\ UNCHANGED <<trackerVars, sessionVars, startupVars, favorites>>

\* One pass of the loop of _get_favorites within _job; the provider lists at
\* most MaxFavorites items.
JobFavoritesStep ==
    /\ cycle.pc = "favorites"
    /\ FavoritesStep
    /\ Len(fav'.items) <= MaxFavorites

\* A pass of the second loop of _job that raised, without its try: the
\* exception leaves _job.
JobFavoriteFailedNoCatch(c) ==
    [c EXCEPT !.pc = "sleep", !.failed = Append(c.failed, EmptyId)]

\* A pass of the second loop of _job that raised: the except clause logs it
\* and the loop goes on with the next favourite.
JobFavoriteFailed(c) ==
    [c EXCEPT !.j = c.j + 1, !.failed = Append(c.failed, EmptyId)]

\* One pass of the second loop of _job: _check_item(Item(data)) for the j-th
\* favourite; data is read as an item of the provider or not at all.
JobCheckFavorite ==
    /\ cycle.pc = "favorites"
    /\ fav.pc = "done"
    /\ cycle.j <= Len(fav.items)
    /\ \/ /\ cycle' = JobFavoriteFailed(cycle)
          /\ UNCHANGED <<amounts, lastCheck>>
       \/ \E item \in FavoriteItems, metricsRaise \in {FALSE} :
            \E failing \in IF item.item_id \in DOMAIN amounts
                              /\ RisingEdge(amounts, item)
                           THEN SUBSET EnabledChannels ELSE {{}} :
              LET r == check_item(amounts, enabled, item, failing, metricsRaise)
              IN  /\ amounts' = r.amounts
                  /\ lastCheck' = [called |-> TRUE, item |-> item,
                                   metricsRaise |-> metricsRaise,
                                   notified |-> r.notified,
                                   failing |-> failing,
                                   send |-> r.send]
                  /\ cycle' = [cycle EXCEPT !.j = cycle.j + 1,
                                            !.checked = Append(cycle.checked, item),
                                            !.observed = Append(cycle.observed,
                                               Observed(item, r.notified, FALSE))]
    /\ UNCHANGED <<enabled, lastSend, sessionVars, startupVars, fav, favorites>>

\* The arguments of save_tokens, as if the access token were the one of
\* the headers of the requests session.
SavedTokensOfHeaders(s) ==
    [access_token |-> s.bearer, refresh_token |-> s.refresh_token,
     user_id |-> s.user_id]

\* The arguments of save_tokens at the end of _job: the fields of the
\* client as they are then.
SavedTokens(s) ==
    [access_token |-> s.access_token, refresh_token |-> s.refresh_token,
     user_id |-> s.user_id]

\* The lengths of the listings the provider gives in one _job: up to
\* MaxFavorites items, after a full page or after none.
ListedLengths ==
    (0 .. MaxFavorites) \cup { page_size + k : k \in 0 .. MaxFavorites }

\* One pass of the loop of _get_favorites within _job, on a listing that
\* can be longer than a page.
JobFavoritesPage ==
    /\ cycle.pc = "favorites"
    /\ FavoritesStep
    /\ Len(fav'.items) \in ListedLengths

\* A favourite that is sold out.
SoldOut == [item_id |-> MaxItems, items_available |-> 0]

\* One pass of the second loop of _job on a long listing: the favourites
\* after the first are readable and sold out.
JobCheckListed ==
    /\ JobCheckFavorite
    /\ cycle.j > 1
         => /\ Len(cycle'.checked) = Len(cycle.checked) + 1
            /\ cycle'.checked[Len(cycle'.checked)] = SoldOut

\* The end of _job: Config.save_tokens with the tokens of the client; then
\* the finally clause of run() starts its sleep.
JobSave ==
    /\ cycle.pc = "favorites"
    /\ fav.pc = "done"
    /\ cycle.j > Len(fav.items)
    /\ cycle' = [cycle EXCEPT
                   !.pc = "sleep",
                   !.saved = Append(cycle.saved, SavedTokens(session))]
    /\ UNCHANGED <<trackerVars, sessionVars, startupVars, fav, favorites>>

\* The sleep in the finally clause of run() ends.
Sleep ==
    /\ cycle.pc = "sleep"
    /\ \E d \in SleepDurations(cycle.sleep_time) : now' = now + d
    /\ cycle' = [cycle EXCEPT !.pc = AfterSleep(cycle),
                              !.sleeps = cycle.sleeps + 1]
    /\ scanner' = IF AfterSleep(cycle) = "ready" THEN scanner
                  ELSE Exit(scanner, "KeyboardInterrupt", "KeyboardInterrupt")
    /\ UNCHANGED <<trackerVars, session, lastCall, emailLogins, config, fav, favorites>>

\* A KeyboardInterrupt.  None of the except Exception clauses catches it:
\* within _job it leaves _job and run() sleeps in its finally clause before
\* it lets it out; within that sleep it ends the loop at once.
Interrupt ==
    /\ scanner.pc = "running"
    /\ cycle.pc \in {"items", "favorites", "sleep"}
    /\ IF cycle.pc = "sleep"
       THEN /\ cycle' = [cycle EXCEPT !.pc = "stopped", !.interrupted = TRUE]
            /\ scanner' = Exit(scanner, "KeyboardInterrupt", "KeyboardInterrupt")
            /\ UNCHANGED fav
       ELSE /\ cycle' = [cycle EXCEPT !.pc = "sleep", !.interrupted = TRUE]
            /\ fav' = IF fav.pc = "loop" THEN [fav EXCEPT !.pc = "aborted"] ELSE fav
            /\ UNCHANGED scanner
    /\ UNCHANGED <<trackerVars, sessionVars, config, favorites>>

(***************************************************************************)
(* The specifications                                                      *)
(***************************************************************************)
EnabledSet == EnabledChannels

\* A session that was logged in at time 0 and is left alone.
SessionIdle ==
    /\ session = [TgtgClient(Email, ConfiguredToken, ConfiguredToken, ConfiguredToken,
                             DEFAULT_ACCESS_TOKEN_LIFETIME, MaxTries,
                             DEFAULT_POLLING_WAIT_TIME)
                    EXCEPT !.last_time_token_refreshed = 0]
    /\ now = 0
    /\ lastCall = NoCall
    /\ emailLogins = 0

\* The startup and the favourites listing are left alone.
StartupIdle ==
    /\ config = DefaultConfig
    /\ scanner = NotStarted
    /\ fav = NoListing
    /\ cycle = NoCycle

\* No item was observed and nothing was sent.
TrackerIdle ==
    /\ amounts = << >>
    /\ enabled = [c \in Channels |-> FALSE]
    /\ lastCheck = NoCheck
    /\ lastSend = NoCheck

InitTracker ==
    /\ favorites = {}
    /\ amounts = << >>
    /\ enabled \in [Channels -> BOOLEAN]
    /\ Cardinality(EnabledSet) <= MaxEnabled
    /\ lastCheck = NoCheck
    /\ lastSend = NoCheck
    /\ SessionIdle
    /\ StartupIdle

NextTracker == CheckItem

SpecTracker == InitTracker /\ [][NextTracker]_vars

InitDispatch ==
    /\ favorites = {}
    /\ amounts = << >>
    /\ enabled \in [Channels -> BOOLEAN]
    /\ lastCheck = NoCheck
    /\ lastSend = NoCheck
    /\ SessionIdle
    /\ StartupIdle

NextDispatch == NotifiersSendCall

SpecDispatch == InitDispatch /\ [][NextDispatch]_vars

\* A client as constructed: without credentials, with part of them or with
\* all three; the polling settings vary for the first two, the lifetime for
\* the last.
InitSession ==
    /\ favorites = {}
    /\ TrackerIdle
    /\ StartupIdle
    /\ now = 0
    /\ lastCall = NoCall
    /\ emailLogins = 0
    /\ \E email \in {NoEmail, Email}, access \in {NoToken, ConfiguredToken},
          full \in BOOLEAN, lifetime \in Lifetimes,
          tries \in 0..MaxTries, wait \in PollingWaits :
         /\ full => access = ConfiguredToken
         /\ full => tries = MaxTries /\ wait = DEFAULT_POLLING_WAIT_TIME
         /\ ~full => lifetime = DEFAULT_ACCESS_TOKEN_LIFETIME
         /\ session = TgtgClient(email, access,
                                 IF full THEN ConfiguredToken ELSE NoToken,
                                 IF full THEN ConfiguredToken ELSE NoToken,
                                 lifetime, tries, wait)

NextSession == Login \/ Tick

SpecSession == InitSession /\ [][NextSession]_vars

\* A client as constructed, without credentials, with an email only or with
\* an email and the three configured tokens, makes calls as time passes.
InitClient ==
    /\ favorites = {}
    /\ TrackerIdle
    /\ StartupIdle
    /\ now = 0
    /\ lastCall = NoCall
    /\ emailLogins = 0
    /\ \E email \in {NoEmail, Email}, full \in BOOLEAN :
         /\ full => email = Email
         /\ session = TgtgClient(email,
                                 IF full THEN ConfiguredToken ELSE NoToken,
                                 IF full THEN ConfiguredToken ELSE NoToken,
                                 IF full THEN ConfiguredToken ELSE NoToken,
                                 DEFAULT_ACCESS_TOKEN_LIFETIME, 1,
                                 DEFAULT_POLLING_WAIT_TIME)

\* The token lifetime passes between two calls of an operation.
ClientTick ==
    /\ now + DEFAULT_ACCESS_TOKEN_LIFETIME
         <= MaxClientTicks * DEFAULT_ACCESS_TOKEN_LIFETIME + MaxTries * DEFAULT_POLLING_WAIT_TIME
    /\ now' = now + DEFAULT_ACCESS_TOKEN_LIFETIME
    /\ lastCall' = NoCall
    /\ UNCHANGED <<session, emailLogins, trackerVars, startupVars, fav, cycle,
                   favorites>>

NextClient == GetItem \/ GetItems \/ SetFavorite \/ ClientTick

SpecClient == InitClient /\ [][NextClient]_vars

\* A client as under SpecSession, whose login() and credentials are called
\* as token lifetimes pass.
NextCredentials == Login \/ GetCredentials \/ ClientTick

SpecCredentials == InitSession /\ [][NextCredentials]_vars

\* The process starts with some configuration: at most MaxEnabled of the
\* notifiers other than the webhook are enabled, and the client has no
\* credentials, an email only, or an email and all three credentials.
InitStartup ==
    /\ favorites = {}
    /\ TrackerIdle
    /\ now = 0
    /\ lastCall = NoCall
    /\ emailLogins = 0
    /\ fav = NoListing
    /\ cycle = NoCycle
    /\ scanner = NotStarted
    /\ config \in Configs
    /\ Cardinality({c \in Channels \ {"webhook"} : config[c].enabled}) <= MaxEnabled
    /\ \E email \in {NoEmail, Email}, access \in {NoToken, ConfiguredToken},
          full \in BOOLEAN :
         /\ full => email = Email /\ access = ConfiguredToken
         /\ session = TgtgClient(email, access,
                                 IF full THEN ConfiguredToken ELSE NoToken,
                                 IF full THEN ConfiguredToken ELSE NoToken,
                                 DEFAULT_ACCESS_TOKEN_LIFETIME, 1, 0)

NextStartup == StartScanner \/ ScannerRun

SpecStartup == InitStartup /\ [][NextStartup]_vars

\* The listing is asked of a client that is logged in, with tokens that
\* were refreshed at time 0 or never since the client was constructed.
InitFavorites ==
    /\ favorites = {}
    /\ TrackerIdle
    /\ config = DefaultConfig
    /\ scanner = NotStarted
    /\ fav = NoListing
    /\ cycle = NoCycle
    /\ now = 0
    /\ lastCall = NoCall
    /\ emailLogins = 0
    /\ \E last \in {NoTime, 0} :
         session = [TgtgClient(Email, ConfiguredToken, ConfiguredToken,
                               ConfiguredToken, DEFAULT_ACCESS_TOKEN_LIFETIME,
                               MaxTries, DEFAULT_POLLING_WAIT_TIME)
                      EXCEPT !.last_time_token_refreshed = last]

NextFavorites == GetFavorites \/ FavoritesStep

SpecFavorites == InitFavorites /\ [][NextFavorites]_vars

\* The loop of _get_favorites does not stop by itself: a pass that can be
\* made is made.
SpecFavoritesRuns == SpecFavorites /\ WF_vars(FavoritesStep)

\* The favorites property of the helper, read again and again; its loop
\* goes on while it can.
NextHelper == HelperFavorites \/ HelperFavoritesStep

SpecHelper == InitFavorites /\ [][NextHelper]_vars /\ WF_vars(HelperFavoritesStep)

\* The login() of Scanner.__init__ for a client constructed with the three
\* configured tokens: their first refresh, which the provider grants.
StartupLogin ==
    login(TgtgClient(Email, ConfiguredToken, ConfiguredToken, ConfiguredToken,
                     DEFAULT_ACCESS_TOKEN_LIFETIME, MaxTries,
                     DEFAULT_POLLING_WAIT_TIME),
          0, [status |-> HTTP_OK, gen |-> ConfiguredToken + 1],
          NoEmailAnswer, << >>)

\* The client when run() is called.
SessionAtRun ==
    /\ session = StartupLogin.session
    /\ now = StartupLogin.now

\* The scanner is constructed and run() is called: nothing was observed yet
\* and the first MaxEnabled channels of the send order are enabled.
InitCycle ==
    /\ favorites = {}
    /\ amounts = << >>
    /\ enabled = [c \in Channels |-> \E k \in 1..MaxEnabled : SendOrder[k] = c]
    /\ lastCheck = NoCheck
    /\ lastSend = NoCheck
    /\ lastCall = NoCall
    /\ emailLogins = 0
    /\ SessionAtRun
    /\ config = DefaultConfig
    /\ scanner = [NotStarted EXCEPT !.pc = "running", !.transport = "open"]
    /\ fav = NoListing
    /\ \E ids \in ItemIdLists, sleep_time \in SleepTimes :
         cycle = [NoCycle EXCEPT !.item_ids = ids, !.sleep_time = sleep_time]

NextCycle ==
    \/ JobStart
    \/ JobItem
    \/ JobListFavorites
    \/ JobFavoritesStep
    \/ JobCheckFavorite
    \/ JobSave
    \/ Sleep

SpecCycle == InitCycle /\ [][NextCycle]_vars

\* The whole process, from start_scanner on: PushSafer is the one notifier
\* the configuration may enable, one id is configured after an empty entry,
\* and the client has no credentials, an email only, an access token only,
\* an email and an access token, or an email and all three credentials.
InitProcess ==
    /\ favorites = {}
    /\ TrackerIdle
    /\ now = 0
    /\ lastCall = NoCall
    /\ emailLogins = 0
    /\ fav = NoListing
    /\ cycle = [NoCycle EXCEPT !.item_ids = <<EmptyId, 1>>]
    /\ scanner = NotStarted
    /\ config \in Configs
    /\ \A c \in Channels \ {"push_safer"} : ~config[c].enabled
    /\ \E email \in {NoEmail, Email}, access \in {NoToken, ConfiguredToken},
          full \in BOOLEAN :
         /\ full => email = Email /\ access = ConfiguredToken
         /\ session = TgtgClient(email, access,
                                 IF full THEN ConfiguredToken ELSE NoToken,
                                 IF full THEN ConfiguredToken ELSE NoToken,
                                 DEFAULT_ACCESS_TOKEN_LIFETIME, 1, 0)

\* A step of the loop within the first MaxProcessCycles cycles.
ProcessCycle == NextCycle /\ cycle'.cycles <= MaxProcessCycles

NextProcess == StartScanner \/ ScannerRun \/ ProcessCycle

SpecProcess == InitProcess /\ [][NextProcess]_vars

\* One _job whose listing can be of any length: run() is called with one
\* configured id after an empty entry.
InitListed ==
    /\ InitCycle
    /\ cycle.item_ids = <<EmptyId, 1>>

NextListed ==
    \/ JobStart
    \/ JobItem
    \/ JobListFavorites
    \/ JobFavoritesPage
    \/ JobCheckListed
    \/ JobSave

SpecListed == InitListed /\ [][NextListed]_vars

\* The cycle with a KeyboardInterrupt that can arrive at any time.
NextShutdown == NextCycle \/ Interrupt

\* run() is called with one configured id after an empty entry.
InitShutdown ==
    /\ InitCycle
    /\ cycle.item_ids = <<EmptyId, 1>>

SpecShutdown == InitShutdown /\ [][NextShutdown]_vars

(***************************************************************************)
(* Claims about the tracker and the dispatch.                              *)
(***************************************************************************)

\* C1: a call of _check_item dispatches a notification if and only if the
\* tracker already held an entry for the item, that entry was exactly 0 and
\* the observed count is greater than 0; a first observation, a repeated
\* non-zero count and a drop to zero never notify.
C1_NotifyIffRisingEdge ==
    [][ LET item == lastCheck'.item
        IN  lastCheck'.notified <=>
              /\ item.item_id \in DOMAIN amounts
              /\ amounts[item.item_id] = 0
              /\ item.items_available > 0 ]_vars

\* A rising edge was observed and dispatched.
C1_Witness ==
    /\ lastCheck.called
    /\ lastCheck.notified
    /\ lastCheck.item.items_available = MaxCount

\* C2: after every call of _check_item the recorded count of the item is the
\* observed count, whatever the call did and whether or not it raised inside.
C2_RecordedEqualsObserved ==
    lastCheck.called =>
        /\ lastCheck.item.item_id \in DOMAIN amounts
        /\ amounts[lastCheck.item.item_id] = lastCheck.item.items_available

\* The metrics raised after a dispatch, and the count is recorded.
C2_Witness ==
    /\ lastCheck.called
    /\ lastCheck.notified
    /\ lastCheck.metricsRaise

\* C3: Notifiers.send runs _send on every enabled channel, whichever of them
\* raise, delivers on every enabled channel that does not raise, and returns
\* without raising.
C3_ChannelIsolation ==
    lastSend.called =>
        /\ ~lastSend.send.raised
        /\ lastSend.send.attempted = EnabledSet
        /\ lastSend.send.delivered = EnabledSet \ lastSend.failing
        /\ lastSend.send.logged = EnabledSet \cap lastSend.failing

\* The first channel raised and the last one still received the item.
C3_Witness ==
    /\ lastSend.called
    /\ SendOrder[1] \in lastSend.send.logged
    /\ SendOrder[Len(SendOrder)] \in lastSend.send.delivered
    /\ Cardinality(lastSend.send.logged) >= 2

(***************************************************************************)
(* Claims about the session.                                               *)
(***************************************************************************)
PollCount(c) ==
    Cardinality({i \in DOMAIN c.requests :
                    c.requests[i].endpoint = "authByRequestPollingId"})

RefreshCount(c) ==
    Cardinality({i \in DOMAIN c.requests : c.requests[i].endpoint = "token/refresh"})

\* The last call was a login that reached start_polling.
Polled == lastCall.op = "login" /\ lastCall.mail.state = "WAIT"

Pending(ans) == ans.status = HTTP_ACCEPTED

\* C4: start_polling sends at most max_polling_tries polling requests; when
\* every answer is 'pending' it fails with the polling error after exactly
\* max_polling_tries requests, each followed by one wait of
\* polling_wait_time, and its message reports their product.
C4_PollingBounded ==
    lastCall.op = "login" =>
        /\ PollCount(lastCall) <= session.max_polling_tries
        /\ (Polled /\ \A i \in DOMAIN lastCall.script : Pending(lastCall.script[i]))
              => /\ lastCall.outcome = "TgtgPollingError"
                 /\ lastCall.message = "Max retries"
                 /\ PollCount(lastCall) = session.max_polling_tries
                 /\ lastCall.waits = session.max_polling_tries
                 /\ now - lastCall.at
                      = session.max_polling_tries * session.polling_wait_time
                 /\ lastCall.seconds
                      = session.max_polling_tries * session.polling_wait_time

\* The polling ran out after MaxTries pending answers and waits.
C4_Witness ==
    /\ Polled
    /\ lastCall.outcome = "TgtgPollingError"
    /\ lastCall.waits = MaxTries
    /\ lastCall.seconds = MaxTries * DEFAULT_POLLING_WAIT_TIME
    /\ MaxTries > 0

\* The script confirms the login at its k-th answer, after k-1 pending ones.
ConfirmedAt(k) ==
    /\ Polled
    /\ k \in DOMAIN lastCall.script
    /\ lastCall.script[k].status = HTTP_OK
    /\ \A i \in 1..(k - 1) : Pending(lastCall.script[i])

\* C5: when the k-th polling answer confirms the login after k-1 pending
\* ones, start_polling stores the tokens and the user id of that answer,
\* sets the refresh timer to the time of the answer, sends no further
\* request and returns, and the session is fully credentialed.
C5_ConfirmedStoresTokens ==
    \A k \in 1..MaxTries + 1 :
        ConfirmedAt(k) =>
            /\ lastCall.outcome = "ok"
            /\ session.access_token = lastCall.script[k].gen
            /\ session.refresh_token = lastCall.script[k].gen
            /\ session.user_id = lastCall.script[k].gen
            /\ session.last_time_token_refreshed
                 = lastCall.at + (k - 1) * session.polling_wait_time
            /\ session.last_time_token_refreshed = now
            /\ PollCount(lastCall) = k
            /\ Len(lastCall.requests) = k + 1
            /\ already_logged(session)

\* The second polling answer confirmed the login.
C5_Witness ==
    /\ ConfirmedAt(2)
    /\ lastCall.waits = 1
    /\ session.polling_wait_time = DEFAULT_POLLING_WAIT_TIME
    /\ already_logged(session)

\* C6: login() of a fully credentialed session whose refresh timer is set
\* sends a refresh request whenever more time than the token lifetime has
\* passed since the last refresh.
C6_RefreshWhenLifetimeExceeded ==
    [][ ( /\ lastCall'.op = "login"
          /\ already_logged(session)
          /\ session.last_time_token_refreshed # NoTime
          /\ now - session.last_time_token_refreshed
               > session.access_token_lifetime )
        => RefreshCount(lastCall') = 1 ]_vars

\* C7: login() of a fully credentialed session whose refresh timer is set
\* and whose token lifetime has not passed sends no request and leaves the
\* session as it is.
C7_FreshLoginIsNoOp ==
    [][ ( /\ lastCall'.op = "login"
          /\ already_logged(session)
          /\ session.last_time_token_refreshed # NoTime
          /\ now - session.last_time_token_refreshed
               <= session.access_token_lifetime )
        => /\ lastCall'.requests = << >>
           /\ lastCall'.outcome = "ok"
           /\ session' = session
           /\ now' = now ]_vars

\* A login() exactly one token lifetime after the last refresh sent nothing.
C7_Witness ==
    /\ lastCall.op = "login"
    /\ lastCall.outcome = "ok"
    /\ lastCall.requests = << >>
    /\ already_logged(session)
    /\ session.last_time_token_refreshed # NoTime
    /\ now - session.last_time_token_refreshed = session.access_token_lifetime

\* The webhook templates hold a ${{name}} whose name is no attribute of Item.
UnknownPlaceholder(c) ==
    \E name \in Matches(c.url) \cup Matches(c.body) : name \notin ATTRS

\* C8: an enabled webhook whose URL or body holds a placeholder that is no
\* attribute of Item ends the startup at its _init with the webhook
\* configuration error, and the test notification never reaches its _send.
C8_UnknownPlaceholderIsConfigurationError ==
    ("webhook" \in scanner.inits /\ UnknownPlaceholder(config.webhook))
        => /\ scanner.pc = "exited"
           /\ scanner.error = "WebHookConfigurationError"
           /\ "webhook" \notin scanner.selfTest.send.attempted

\* The _init of some enabled channel ran and raised.
FailedInit == \E ch \in scanner.inits : ChannelInit(config, ch) # "ok"

\* C9: when the _init of an enabled channel fails, the startup ends with a
\* configuration error of that channel and a status that is not 0, no test
\* notification is sent, and the scanner is never constructed nor run.
C9_FailedInitAbortsWithConfigurationError ==
    FailedInit
        => /\ scanner.pc = "exited"
           /\ scanner.status # 0
           /\ scanner.error \in NotifierConfigurationErrors
           /\ ~scanner.selfTest.sent
           /\ scanner.selfTest.send.attempted = {}

\* The pages answered to the first n requests, one after the other.
RECURSIVE Pages(_, _)
Pages(responses, n) ==
    IF n = 0 THEN << >>
    ELSE Pages(responses, n - 1) \o PageItems(n, responses[n])

\* C10: a listing that ends without a failed fetch has asked for the pages
\* 1, 2, 3, ... with page size 100, every page but the last held 100 items
\* and the last fewer, and it returns the pages one after the other: k full
\* pages and a page of m items are k + 1 requests and 100 * k + m items.
C10_FavoritesConcatenatesPages ==
    (fav.pc = "done" /\ fav.error_count = 0)
        => LET n == Len(fav.requests)
           IN  /\ n >= 1
               /\ Len(fav.responses) = n
               /\ \A i \in 1..n :
                    fav.requests[i].arg = [page_size |-> 100, page |-> i]
               /\ \A i \in 1..(n - 1) : fav.responses[i] = 100
               /\ fav.responses[n] < 100
               /\ fav.items = Pages(fav.responses, n)
               /\ Len(fav.items) = 100 * (n - 1) + fav.responses[n]

\* Two full pages and a page of 40 items: three requests, 240 items.
C10_Witness ==
    /\ fav.pc = "done"
    /\ fav.error_count = 0
    /\ fav.responses = <<100, 100, 40>>
    /\ Len(fav.requests) = 3
    /\ Len(fav.items) = 240

\* The pass from this state to the next was one whose get_items raised: it
\* sent no listing request, or the request was answered with an error.
FailedPass ==
    /\ fav.pc = "loop"
    /\ fav'.pc # "idle"
    /\ fav' # fav
    /\ \/ Len(fav'.requests) = Len(fav.requests)
       \/ fav'.responses[Len(fav'.responses)] = -1

\* C11: a failed page fetch adds no item, counts one error and leaves the
\* page number alone, so the next request asks for the same page; with the
\* fifth error the listing ends, holding the pages fetched so far, and no
\* request follows until the next listing starts.
C11_FailedFetchRetriesSamePage ==
    /\ [][FailedPass
            => /\ fav'.items = fav.items
               /\ fav'.page = fav.page
               /\ fav'.error_count = fav.error_count + 1
               /\ fav'.pc = IF fav'.error_count = 5 THEN "done" ELSE "loop"]_vars
    /\ [][fav.pc = "done" => (fav'.pc = "loop" /\ fav'.requests = << >>)]_vars
    /\ [](/\ fav.error_count <= 5
          /\ fav.pc = "loop" => fav.error_count < 5
          /\ Len(fav.responses) = Len(fav.requests)
          /\ \A i \in 1..(Len(fav.requests) - 1) :
               fav.responses[i] = -1
                   => fav.requests[i + 1].arg.page = fav.requests[i].arg.page
          /\ fav.pc = "done" => fav.items = Pages(fav.responses, Len(fav.responses)))

\* A full page, then five failed fetches of page 2: the listing ends with
\* the 100 items of page 1.
C11_Witness ==
    /\ fav.pc = "done"
    /\ fav.error_count = 5
    /\ fav.responses = <<100, -1, -1, -1, -1, -1>>
    /\ \A i \in 2..6 : fav.requests[i].arg.page = 2
    /\ Len(fav.items) = 100

\* The configured ids that are not "", in the order of the configuration.
ConfiguredIds == SelectSeq(cycle.item_ids, LAMBDA id : id # EmptyId)

\* C12: a failed fetch or check of a configured id leaves _job in its first
\* loop, at the next id; when the cycle ends every configured id was asked
\* of the provider, in order, the favourites were listed to the end and each
\* of them went through the second loop, and the tokens of the client were
\* saved.
C12_ItemFailureDoesNotAbortCycle ==
    /\ [][(cycle.pc = "items" /\ Len(cycle'.failed) > Len(cycle.failed))
            => (cycle'.pc = "items" /\ cycle'.i = cycle.i + 1)]_vars
    /\ [](cycle.pc = "sleep"
            => /\ cycle.fetched = ConfiguredIds
               /\ fav.pc = "done"
               /\ cycle.j = Len(fav.items) + 1
               /\ cycle.saved = <<[access_token |-> session.access_token,
                                   refresh_token |-> session.refresh_token,
                                   user_id |-> session.user_id]>>)

\* The fetch of the first of two ids failed; the second was fetched and
\* checked, a favourite was listed and checked, and the tokens were saved.
C12_Witness ==
    /\ cycle.pc = "sleep"
    /\ cycle.failed = <<1>>
    /\ cycle.fetched = <<1, MaxItems>>
    /\ Len(cycle.checked) = 2
    /\ Len(fav.items) = 1
    /\ Len(cycle.saved) = 1

\* _job is running.
InJob == cycle.pc \in {"items", "favorites"}

\* C13: whenever _job ends, by its end or by an exception that leaves it,
\* run() sleeps; a sleep that no KeyboardInterrupt touches ends once and
\* hands over to the next call of _job; the loop is left only with a
\* KeyboardInterrupt, and every cycle has had its one sleep when the next
\* starts.
C13_RunLoopsForever ==
    /\ [][(InJob /\ ~InJob') => cycle'.pc = "sleep"]_vars
    /\ [][(cycle.pc = "sleep" /\ cycle' # cycle /\ ~cycle'.interrupted)
            => (cycle'.pc = "ready" /\ cycle'.sleeps = cycle.sleeps + 1)]_vars
    /\ [][(cycle.pc = "ready" /\ cycle' # cycle)
            => (cycle'.pc = "items" /\ cycle'.cycles = cycle.cycles + 1)]_vars
    /\ [](/\ cycle.pc = "stopped" => cycle.interrupted
          /\ scanner.pc = "exited" <=> cycle.pc = "stopped"
          /\ cycle.pc = "ready" => cycle.sleeps = cycle.cycles
          /\ InJob => cycle.sleeps = cycle.cycles - 1
          /\ cycle.sleeps \in {cycle.cycles - 1, cycle.cycles})

\* The second cycle runs after the one sleep that followed the first, in
\* which the fetch of the configured id had failed.
C13_Witness ==
    /\ cycle.pc = "favorites"
    /\ cycle.cycles = 2
    /\ cycle.sleeps = 1
    /\ cycle.failed = <<1>>
    /\ ~cycle.interrupted

\* The most recent call was one of the three operations.
OperationCalled == lastCall.op \in {"get_item", "get_items", "set_favorite"}

\* The endpoints of the requests of the three operations.
OperationEndpoints == {"item", "item/id", "item/id/setFavorite"}

\* C14: get_item, get_items and set_favorite send their own request only
\* after login() returned, as the last request of the call; when login()
\* raises, the call ends with that exception and its own request is not
\* sent.
C14_LoginBeforeOwnRequest ==
    OperationCalled
        => /\ lastCall.login # "ok"
                => /\ lastCall.outcome = lastCall.login
                   /\ lastCall.own = << >>
           /\ lastCall.login = "ok" => lastCall.own # << >>
           /\ \A i \in DOMAIN lastCall.requests :
                lastCall.requests[i].endpoint \in OperationEndpoints
                    => (i = Len(lastCall.requests) /\ lastCall.login = "ok")

\* get_item on a client whose refresh request was refused: the call ends
\* with the API error of login() after the refresh request alone.
C14_Witness ==
    /\ lastCall.op = "get_item"
    /\ lastCall.login = "TgtgAPIError"
    /\ lastCall.outcome = "TgtgAPIError"
    /\ Len(lastCall.requests) = 1
    /\ lastCall.requests[1].endpoint = "token/refresh"
    /\ lastCall.own = << >>

\* C15: the request of get_item, get_items and set_favorite carries the
\* access token the client holds when it is sent.
C15_RequestsCarryCurrentToken ==
    OperationCalled
        => \A i \in DOMAIN lastCall.own :
             lastCall.own[i].bearer = session.access_token

\* C16: a call of get_item, get_items or set_favorite whose login() returned
\* sends one request of its own; answered with OK it returns the payload
\* (nothing for set_favorite), answered with another status it raises the
\* API error with that status and the content of the response.
C16_OneRequestNoRetry ==
    OperationCalled
        => /\ Len(lastCall.own) <= 1
           /\ lastCall.login = "ok"
                => /\ Len(lastCall.own) = 1
                   /\ lastCall.answer = HTTP_OK
                        => /\ lastCall.outcome = "ok"
                           /\ lastCall.payload = lastCall.given
                           /\ lastCall.op = "set_favorite" => lastCall.payload = -1
                   /\ lastCall.answer # HTTP_OK
                        => /\ lastCall.outcome = "TgtgAPIError"
                           /\ lastCall.status = lastCall.answer
                           /\ lastCall.message = ResponseContent
                           /\ lastCall.payload = -1

\* get_items answered with 429: one listing request, then the API error
\* with status 429.
C16_Witness ==
    /\ lastCall.op = "get_items"
    /\ lastCall.login = "ok"
    /\ lastCall.answer = HTTP_TOO_MANY_REQUESTS
    /\ lastCall.outcome = "TgtgAPIError"
    /\ lastCall.status = HTTP_TOO_MANY_REQUESTS
    /\ Len(lastCall.own) = 1

\* C17: a login() whose refresh request is answered with a status other
\* than OK raises the API error with that status after that one request,
\* and leaves the access token, the refresh token, the user id and the
\* time of the last refresh as they were.
C17_RefusedRefreshChangesNothing ==
    [][(lastCall'.op = "login" /\ lastCall'.refresh.status \in OtherStatuses)
        => /\ lastCall'.outcome = "TgtgAPIError"
           /\ lastCall'.status = lastCall'.refresh.status
           /\ Len(lastCall'.requests) = 1
           /\ session'.access_token = session.access_token
           /\ session'.refresh_token = session.refresh_token
           /\ session'.user_id = session.user_id
           /\ session'.last_time_token_refreshed = session.last_time_token_refreshed
           /\ session' = session]_vars

\* A refresh refused with 401 on a client that had refreshed before: the
\* tokens and the timer of the earlier refresh are still there.
C17_Witness ==
    /\ lastCall.op = "login"
    /\ lastCall.refresh.status = HTTP_UNAUTHORIZED
    /\ lastCall.outcome = "TgtgAPIError"
    /\ lastCall.status = HTTP_UNAUTHORIZED
    /\ session.last_time_token_refreshed # NoTime
    /\ session.last_time_token_refreshed < lastCall.at
    /\ session.access_token \in ProviderTokens

\* The most recent call was a login() that submitted the email.
EmailSubmitted == lastCall.op = "login" /\ lastCall.mail # NoEmailAnswer

\* The polling requests of the most recent call.
PollingRequests ==
    {i \in DOMAIN lastCall.requests :
        lastCall.requests[i].endpoint = "authByRequestPollingId"}

\* C18: a login() that submits the email ends in one of three ways: the
\* answer TERMS raises the login error without a polling request, the
\* answer WAIT starts polling with the polling id of the answer, and any
\* other state or status raises the login error without a polling request.
C18_EmailAnswerThreeOutcomes ==
    EmailSubmitted
        => IF lastCall.mail.status = HTTP_OK /\ lastCall.mail.state = "WAIT"
           THEN /\ PollingRequests # {}
                /\ \A i \in PollingRequests :
                     lastCall.requests[i].arg = lastCall.mail.polling_id
           ELSE /\ lastCall.outcome = "TgtgLoginError"
                /\ PollingRequests = {}

\* The tries of the most recent call answered with something other than
\* pending or confirmed, none of the tries before being confirmed.
RefusedTries ==
    {k \in DOMAIN lastCall.script :
        /\ lastCall.script[k].status \in OtherStatuses
        /\ \A i \in 1..(k - 1) : lastCall.script[i].status = HTTP_ACCEPTED}

\* C19: when a polling request of login() is answered with 429 or with any
\* status other than pending and confirmed, login() raises at once: that
\* request is the last one, no sleep follows it, and the tokens, the user
\* id and the time of the last refresh are as before the call.
C19_PollingErrorFailsAtOnce ==
    [][\A k \in RefusedTries' :
         /\ lastCall'.op = "login"
         /\ lastCall'.outcome
              = (IF lastCall'.script[k].status = HTTP_TOO_MANY_REQUESTS
                 THEN "TgtgAPIError" ELSE "TgtgLoginError")
         /\ Cardinality(PollingRequests') = k
         /\ Len(lastCall'.requests) = k + 1
         /\ lastCall'.waits = k - 1
         /\ now' = now + (k - 1) * session.polling_wait_time
         /\ session' = session]_vars

\* A login whose first polling request was answered pending and whose
\* second one was answered 429: two polling requests, one sleep.
C19_Witness ==
    /\ lastCall.op = "login"
    /\ 2 \in RefusedTries
    /\ lastCall.script[2].status = HTTP_TOO_MANY_REQUESTS
    /\ lastCall.outcome = "TgtgAPIError"
    /\ Cardinality(PollingRequests) = 2
    /\ lastCall.waits = 1

\* A client with neither an email nor all of access token, refresh token
\* and user id.
InvalidSession(s) == s.email = NoEmail /\ ~already_logged(s)

\* C20: a scanner whose client has neither an email nor all three of access
\* token, refresh token and user id is not constructed: Scanner() ends with
\* TGTGConfigurationError before any channel is built, and no request was
\* sent for that client.
C20_InvalidSessionIsNotConstructed ==
    (InvalidSession(session) /\ scanner.pc # "start")
        => /\ scanner.pc = "exited"
           /\ scanner.status = 1
           /\ scanner.error = "TGTGConfigurationError"
           /\ scanner.inits = {}
           /\ lastCall.op = "login"
           /\ lastCall.outcome = "TGTGConfigurationError"
           /\ lastCall.requests = << >>

\* A scanner configured with an access token alone, without email, refresh
\* token and user id, has ended with the configuration error.
C20_Witness ==
    /\ InvalidSession(session)
    /\ session.access_token = ConfiguredToken
    /\ scanner.pc = "exited"
    /\ scanner.error = "TGTGConfigurationError"
    /\ lastCall.requests = << >>

\* The channels the configuration enables.
ConfiguredChannels == {c \in Channels : config[c].enabled}

\* C21: when Scanner() returned, and so before the first cycle, every
\* enabled channel was initialised and, unless disable_tests is set, the
\* test item went once through the send of every enabled channel and of no
\* other; with disable_tests set nothing was sent.  A startup that ended in
\* an initialisation error sent nothing.
C21_SelfTestAfterInitialisation ==
    /\ scanner.pc \in {"constructed", "running"}
         => /\ scanner.inits = ConfiguredChannels
            /\ \A c \in Channels : enabled[c] <=> c \in ConfiguredChannels
            /\ IF config.disable_tests
               THEN /\ ~scanner.selfTest.sent
                    /\ scanner.selfTest.send.attempted = {}
               ELSE /\ scanner.selfTest.sent
                    /\ scanner.selfTest.item = TestItem
                    /\ scanner.selfTest.send.attempted = ConfiguredChannels
                    /\ scanner.selfTest.send.delivered
                         = ConfiguredChannels \ scanner.selfTest.failing
                    /\ ~scanner.selfTest.send.raised
    /\ scanner.pc = "exited" => scanner.selfTest.send.attempted = {}
    /\ scanner.pc = "start" => ~scanner.selfTest.sent

\* A scanner with an enabled channel was constructed and the test item
\* went through that channel.
C21_Witness ==
    /\ scanner.pc = "constructed"
    /\ ~config.disable_tests
    /\ ConfiguredChannels # {}
    /\ scanner.selfTest.sent
    /\ scanner.selfTest.send.delivered = ConfiguredChannels

\* set_favorite(1, True) was the most recent call.
SetTrueCalled ==
    /\ lastCall.op = "set_favorite"
    /\ lastCall.args = [item_id |-> 1, is_favorite |-> TRUE]

CurrentTokens ==
    [access_token |-> session.access_token,
     refresh_token |-> session.refresh_token, user_id |-> session.user_id]

\* C23: a _job that ran to its end, whatever failed in it, called
\* save_tokens once, with the access token, the refresh token and the user
\* id the client holds at that moment; while _job runs nothing is saved.
C23_CycleSavesCurrentTokens ==
    /\ InJob => cycle.saved = << >>
    /\ (cycle.pc \in {"sleep", "ready"} /\ cycle.cycles > 0 /\ ~cycle.interrupted)
         => /\ Len(cycle.saved) = 1
            /\ cycle.saved[1] = CurrentTokens

\* A cycle in which an item fetch and a listing request failed and a refresh
\* replaced the tokens of the startup login has saved the new tokens.
C23_Witness ==
    /\ cycle.pc = "sleep"
    /\ cycle.cycles = 2
    /\ cycle.failed # << >>
    /\ RefreshCount(cycle) > 0
    /\ Len(cycle.saved) = 1
    /\ fav.error_count > 0
    /\ cycle.saved[1].access_token = ConfiguredToken + 2
    /\ cycle.saved[1].access_token = session.access_token

\* A KeyboardInterrupt arrives while run() sleeps: the sleep does not end.
InterruptedInSleep ==
    /\ cycle.pc = "sleep"
    /\ cycle'.interrupted
    /\ cycle'.sleeps = cycle.sleeps
    /\ cycle' # cycle

StartupFailed ==
    \/ lastCall.op = "login" /\ lastCall.outcome # "ok"
    \/ \E c \in ConfiguredChannels : ChannelInit(config, c) # "ok"

\* Something failed within the loop: a fetch of an item or a check of a
\* favourite, a listing request, or the _send of a channel.
FailedInLoop ==
    \/ cycle.failed # << >>
    \/ fav.error_count > 0
    \/ lastCheck.called /\ lastCheck.send.logged # {}

\* C25: a startup whose login or channel initialisation raised ends the
\* process with a status other than 0 before any cycle started, and the
\* process ends no other way: once the loop runs, failed fetches, failed
\* listings and failed deliveries leave it running.
C25_OnlyStartupFailuresTerminate ==
    /\ (scanner.pc # "start" /\ StartupFailed)
         => /\ scanner.pc = "exited"
            /\ scanner.status # 0
            /\ scanner.error # "None"
    /\ scanner.pc = "exited"
         => /\ StartupFailed
            /\ scanner.status # 0
            /\ cycle.cycles = 0
            /\ amounts = << >>
    /\ cycle.cycles > 0 => scanner.pc = "running"
    /\ FailedInLoop => scanner.pc = "running"

\* A cycle with a failed listing request and a failed delivery has ended,
\* and the process runs on.
C25_Witness ==
    /\ scanner.pc = "running"
    /\ cycle.pc = "ready"
    /\ cycle.cycles > 0
    /\ fav.error_count > 0
    /\ lastCheck.called
    /\ lastCheck.send.logged # {}

\* C26: whenever _check_item detects a rising edge, every enabled channel
\* receives the item: its _send ran on it and returned.
C26_EveryEnabledChannelReceives ==
    (lastCheck.called /\ lastCheck.notified)
        => /\ lastCheck.send.attempted = EnabledSet
           /\ lastCheck.send.delivered = EnabledSet

\* The channels the configuration leaves disabled.
DisabledChannels == Channels \ ConfiguredChannels

\* C27: a channel that is not enabled takes no part: its _init never runs,
\* whatever its settings are, its enabled flag stays unset, and its _send
\* runs neither on the test item nor on an item _check_item dispatches.
C27_DisabledChannelsTakeNoPart ==
    \A c \in DisabledChannels :
        /\ c \notin scanner.inits
        /\ ~enabled[c]
        /\ c \notin scanner.selfTest.send.attempted
        /\ lastCheck.called => c \notin lastCheck.send.attempted

\* PushSafer is disabled and has no key; the scanner was constructed all the
\* same, the test item was sent, and a rising edge was dispatched: no _send
\* ran.
C27_Witness ==
    /\ "push_safer" \in DisabledChannels
    /\ ~config.push_safer.key
    /\ scanner.pc = "running"
    /\ scanner.selfTest.sent
    /\ scanner.selfTest.send.attempted = {}
    /\ lastCheck.called
    /\ lastCheck.notified
    /\ lastCheck.send.attempted = {}

\* C28: a login() whose refresh request is answered with OK stores the
\* access token and the refresh token of the answer, sets the time of the
\* last refresh to now and changes nothing else of the client; a login()
\* made while no more than the token lifetime has passed since a refresh
\* sends no request and changes nothing.
C28_RefreshStoresTokensAndTimer ==
    /\ [][(lastCall'.op = "login" /\ lastCall'.refresh.status = HTTP_OK)
            => /\ lastCall'.outcome = "ok"
               /\ session'.access_token = lastCall'.refresh.gen
               /\ session'.refresh_token = lastCall'.refresh.gen
               /\ session'.last_time_token_refreshed = now
               /\ session'.user_id = session.user_id
               /\ session'.email = session.email
               /\ session' = [session EXCEPT
                                !.access_token = lastCall'.refresh.gen,
                                !.refresh_token = lastCall'.refresh.gen,
                                !.last_time_token_refreshed = now]]_vars
    /\ [][(/\ lastCall'.op = "login"
           /\ already_logged(session)
           /\ session.last_time_token_refreshed # NoTime
           /\ now - session.last_time_token_refreshed <= session.access_token_lifetime)
            => /\ lastCall'.requests = << >>
               /\ lastCall'.outcome = "ok"
               /\ session' = session]_vars

\* A login() after a refresh that replaced the configured tokens, within
\* the lifetime but later than the refresh: no request was sent.
C28_Witness ==
    /\ lastCall.op = "login"
    /\ lastCall.requests = << >>
    /\ session.last_time_token_refreshed # NoTime
    /\ lastCall.at > session.last_time_token_refreshed
    /\ lastCall.at - session.last_time_token_refreshed <= session.access_token_lifetime
    /\ session.access_token \in ProviderTokens
    /\ session.user_id = ConfiguredToken

\* A step in which _check_item ran within _job, and the item it ran on.
CheckedInStep == Len(cycle'.checked) = Len(cycle.checked) + 1

CheckedItem == cycle'.checked[Len(cycle'.checked)]

\* C29: no entry of amounts is ever removed; an entry is created or changed
\* only by _check_item on that item, which sets it to the observed count,
\* so an item that is not observed keeps its count; and an item whose
\* recorded count is 0 notifies when it is observed with a count above 0,
\* however long ago the 0 was recorded.
C29_EntriesStayUntilObserved ==
    [][/\ DOMAIN amounts \subseteq DOMAIN amounts'
       /\ \A id \in DOMAIN amounts' :
            (id \notin DOMAIN amounts \/ amounts'[id] # amounts[id])
                => /\ CheckedInStep
                   /\ CheckedItem.item_id = id
                   /\ amounts'[id] = CheckedItem.items_available
       /\ (/\ CheckedInStep
           /\ CheckedItem.item_id \in DOMAIN amounts
           /\ amounts[CheckedItem.item_id] = 0
           /\ CheckedItem.items_available > 0)
            => lastCheck'.notified /\ lastCheck'.item = CheckedItem]_vars

\* The second cycle ended without observing anything (the fetch and the
\* listing failed): the item recorded with 0 in the first cycle still has
\* its entry.
C29_Witness ==
    /\ cycle.cycles = 2
    /\ cycle.pc = "sleep"
    /\ cycle.checked = << >>
    /\ cycle.failed # << >>
    /\ fav.error_count = MaxFavoritesErrors
    /\ 1 \in DOMAIN amounts
    /\ amounts[1] = 0

\* C30: when _job has ended, every item _get_favorites returned went
\* through the second loop, also when the listing gave up after 5 errors
\* with the pages fetched before, and also when the check of a favourite
\* before it raised: every one of them was checked or logged as failed.
C30_FetchedFavoritesAreChecked ==
    /\ cycle.pc = "sleep"
         => /\ fav.pc = "done"
            /\ cycle.j = Len(fav.items) + 1
            /\ Len(cycle.checked) + Len(cycle.failed)
                 = Len(cycle.fetched) + Len(fav.items)
    /\ (fav.pc = "done" /\ fav.error_count = MaxFavoritesErrors)
         => Len(fav.items) = page_size * (fav.page - 1)

\* The listing gave up after a full page and 5 errors; the check of the
\* first favourite raised and the other favourites of the page were checked.
C30_Witness ==
    /\ cycle.pc = "sleep"
    /\ fav.error_count = MaxFavoritesErrors
    /\ Len(fav.items) = page_size
    /\ cycle.failed = <<EmptyId>>
    /\ Len(cycle.checked) = page_size

\* The class of the error a call raises when the provider answers 429.
RateLimitError == "TgtgAPIError"

\* C31: a call of get_item, get_items or set_favorite whose own request the
\* provider refuses ends with the rate-limit error exactly when the status
\* of the answer is 429: no other status is reported with that class.
C31_RateLimitIsDistinguished ==
    (OperationCalled /\ lastCall.login = "ok" /\ lastCall.answer # HTTP_OK)
        => (lastCall.outcome = RateLimitError
              <=> lastCall.answer = HTTP_TOO_MANY_REQUESTS)

\* C32: when login() or the credentials accessor has returned, the client
\* holds an access token, a refresh token and a user id, and what the
\* accessor returned is these three.
C32_ReturnedMeansCredentialed ==
    (lastCall.op \in {"login", "credentials"} /\ lastCall.outcome = "ok")
        => /\ session.access_token # NoToken
           /\ session.refresh_token # NoToken
           /\ session.user_id # NoToken
           /\ lastCall.op = "credentials"
                => lastCall.returned = Credentials(session)

\* The accessor was read on a client with an email only; the email login
\* was confirmed and the accessor returned the tokens of the confirmation.
C32_Witness ==
    /\ lastCall.op = "credentials"
    /\ lastCall.outcome = "ok"
    /\ lastCall.mail.state = "WAIT"
    /\ lastCall.returned.access_token \in ProviderTokens
    /\ lastCall.returned.user_id \in ProviderTokens

\* C33: a _check_item that notifies found the entry of the item at 0, ran
\* _send once on every enabled channel, and recorded the observed count
\* also when a _send failed; so the next notification of the item needs a
\* 0 recorded in between, and a notification a channel lost is not sent
\* again.
C33_FailedSendIsNotRetried ==
    [][(lastCheck' # lastCheck /\ lastCheck'.called /\ lastCheck'.notified)
        => /\ lastCheck'.item.item_id \in DOMAIN amounts
           /\ amounts[lastCheck'.item.item_id] = 0
           /\ lastCheck'.send.attempted = EnabledSet
           /\ lastCheck'.send.logged = lastCheck'.failing
           /\ lastCheck'.send.delivered = EnabledSet \ lastCheck'.failing
           /\ amounts'[lastCheck'.item.item_id] = lastCheck'.item.items_available
           /\ lastCheck'.item.items_available > 0]_vars

\* A rising edge was dispatched, the _send of the enabled channel failed,
\* and the count is recorded.
C33_Witness ==
    /\ lastCheck.called
    /\ lastCheck.notified
    /\ lastCheck.send.logged # {}
    /\ lastCheck.send.delivered = {}
    /\ ~lastCheck.metricsRaise
    /\ amounts[lastCheck.item.item_id] = lastCheck.item.items_available

\* The login() of Scanner.__init__ ran on a client that was constructed
\* with the three tokens.
StartedWithTokens ==
    /\ scanner.pc # "start"
    /\ lastCall.op = "login"
    /\ lastCall.mail = NoEmailAnswer
    /\ already_logged(session)

\* C34: the login() of Scanner.__init__ on a client constructed with the
\* three tokens sends one refresh request; when the provider refuses it,
\* the process exits with the API error and status 1 and no cycle was
\* started.
C34_FirstLoginRefreshes ==
    StartedWithTokens
        => /\ Len(lastCall.requests) = 1
           /\ lastCall.requests[1].endpoint = "token/refresh"
           /\ lastCall.requests[1].arg = ConfiguredToken
           /\ lastCall.refresh.status # HTTP_OK
                => /\ lastCall.outcome = "TgtgAPIError"
                   /\ scanner.pc = "exited"
                   /\ scanner.error = "TgtgAPIError"
                   /\ scanner.status = 1
                   /\ scanner.inits = {}
                   /\ cycle = NoCycle

\* The first refresh was answered with 429 and the process has exited.
C34_Witness ==
    /\ StartedWithTokens
    /\ lastCall.refresh.status = HTTP_TOO_MANY_REQUESTS
    /\ Len(lastCall.requests) = 1
    /\ scanner.pc = "exited"
    /\ scanner.status = 1

\* The requests _job has sent in this cycle: those of the first loop, those
\* of the login() calls of the listing, and the listing requests.
CycleRequests == cycle.requests \o fav.auth \o fav.requests

\* The configured ids that are not "".
ExplicitIds == {i \in 1..Len(cycle.item_ids) : cycle.item_ids[i] # EmptyId}

\* _job has ended and no refresh of this cycle was answered with OK, while
\* the token was due for a refresh.
RefreshKeptFailing ==
    /\ cycle.pc = "sleep"
    /\ ~cycle.interrupted
    /\ ~TokenFresh(session, now)

ObservedTwice(i, j) ==
    /\ i < j
    /\ cycle.observed[i].explicit
    /\ ~cycle.observed[j].explicit
    /\ cycle.observed[i].item.item_id = cycle.observed[j].item.item_id
    /\ \A k \in (i + 1)..(j - 1) :
         cycle.observed[k].item.item_id # cycle.observed[i].item.item_id

\* C36: within a cycle the configured ids are checked before the
\* favourites; of the two checks of an item that is both, with the same
\* count, the second does not notify, so at most one of them does.
C36_SameCountNotifiesOnce ==
    \A i, j \in 1..Len(cycle.observed) :
        /\ (i < j /\ cycle.observed[j].explicit) => cycle.observed[i].explicit
        /\ (/\ ObservedTwice(i, j)
            /\ cycle.observed[i].item.items_available
                 = cycle.observed[j].item.items_available)
             => ~cycle.observed[j].notified

\* Item 1 is configured and a favourite; both fetches of the cycle reported
\* the same count above 0 and the first check notified.
C36_Witness ==
    /\ Len(cycle.observed) >= 2
    /\ ObservedTwice(1, Len(cycle.observed))
    /\ cycle.observed[1].item = cycle.observed[Len(cycle.observed)].item
    /\ cycle.observed[1].notified
    /\ ~cycle.observed[Len(cycle.observed)].notified

\* The listing requests of this listing that were answered with a page, and
\* those that were answered with an error.
FetchedPages == {i \in 1..Len(fav.responses) : fav.responses[i] >= 0}

RefusedPages == {i \in 1..Len(fav.responses) : fav.responses[i] < 0}

\* C37: error_count never goes down within a listing, also when a page is
\* fetched, and counts every failed pass; so a listing sends at most 5
\* listing requests besides those that fetched a page, of which all but the
\* last one are full pages, and a listing that has started ends.
C37_ErrorsAreCumulative ==
    /\ [][fav'.pc # "loop" \/ fav.pc # "loop"
            \/ fav'.error_count >= fav.error_count]_vars
    /\ [](/\ Cardinality(RefusedPages) <= fav.error_count
          /\ fav.error_count <= MaxFavoritesErrors
          /\ Len(fav.requests) = Cardinality(FetchedPages) + Cardinality(RefusedPages)
          /\ Len(fav.requests) <= Cardinality(FetchedPages) + MaxFavoritesErrors
          /\ \A i \in FetchedPages :
               fav.responses[i] < page_size
                   => (i = Len(fav.responses) /\ fav.pc = "done")
          /\ \A i \in FetchedPages :
               fav.requests[i].arg.page = Cardinality({k \in FetchedPages : k <= i}))
    /\ (fav.pc = "loop") ~> (fav.pc = "done")

\* Two failed fetches, a full page, two more failed fetches and a short
\* page: the counter stands at 4 after 2 pages and 6 requests.
C37_Witness ==
    /\ fav.pc = "done"
    /\ fav.error_count = 4
    /\ fav.responses = <<-1, -1, page_size, -1, -1, 40>>
    /\ Len(fav.requests) = 6

\* C38: a read of Helper.favorites in which no fetch failed returns what
\* _get_favorites returns for the same pages, the pages one after the
\* other; and every read of Helper.favorites ends, whatever the provider
\* answers.
C38_HelperFavoritesEnds ==
    /\ []((fav.pc = "done" /\ RefusedPages = {} /\ fav.auth = << >>)
            => fav.items = Pages(fav.responses, Len(fav.responses)))
    /\ (fav.pc = "loop") ~> (fav.pc = "done")

\* The webhook is configured with a method and a URL whose placeholders
\* are attributes of Item, and with no body.
WebhookWithoutBody ==
    /\ config.webhook.method
    /\ config.webhook.url.present
    /\ ~config.webhook.body.present
    /\ \A name \in Matches(config.webhook.url) : name \in ATTRS

\* C39: the _init of an enabled webhook with a method, a URL and no body
\* succeeds, and an _init of the webhook that fails ends the startup with
\* the webhook configuration error.
C39_WebhookWithoutBodyInitialises ==
    "webhook" \in scanner.inits
        => /\ WebhookWithoutBody => ChannelInit(config, "webhook") = "ok"
           /\ ChannelInit(config, "webhook") # "ok"
                => scanner.error = "WebHookConfigurationError"

\* C40: once a KeyboardInterrupt was raised in a _job, no request is sent,
\* nothing is checked or notified and no _job starts; run() is in the sleep
\* of its finally clause, the one sleep of that cycle, or has left the loop,
\* and the process then exits with status 0.
C40_InterruptedJobEndsTheLoop ==
    /\ [][cycle.interrupted
            => /\ cycle'.interrupted
               /\ cycle'.requests = cycle.requests
               /\ fav' = fav
               /\ session' = session
               /\ cycle'.observed = cycle.observed
               /\ amounts' = amounts
               /\ cycle'.cycles = cycle.cycles
               /\ cycle'.pc \in {"sleep", "stopped"}]_vars
    /\ [](cycle.interrupted
            => /\ cycle.pc \in {"sleep", "stopped"}
               /\ cycle.sleeps <= cycle.cycles
               /\ cycle.pc = "stopped"
                    => /\ scanner.pc = "exited"
                       /\ scanner.status = 0
                       /\ scanner.handler = "KeyboardInterrupt")

\* A KeyboardInterrupt was raised while the first _job was listing the
\* favourites, after a failed listing request: run() slept once and the
\* process exited.
C40_Witness ==
    /\ cycle.interrupted
    /\ fav.pc = "aborted"
    /\ fav.error_count > 0
    /\ cycle.cycles = 1
    /\ cycle.sleeps = 1
    /\ cycle.pc = "stopped"
    /\ scanner.pc = "exited"

=============================================================================
